---------------------------- MODULE Spec2Model ----------------------------
(***************************************************************************)
(* Fingerprint template vault of the attendance backend.                   *)
(*                                                                         *)
(* The model follows src/models/User.js (the Fingerprint schema, its       *)
(* encryption helpers and methods) and src/routes/fingerprintRoutes.js     *)
(* (the enroll, retrieve-template and revoke handlers).                    *)
(*                                                                         *)
(* Every handler is an async function.  Between two awaits the code of a   *)
(* handler runs without interruption; a database operation takes effect    *)
(* at some moment after it was issued and before its continuation runs.    *)
(* Each action below is therefore "the continuation of the previous await  *)
(* followed by the database operation of the next await"; the last action  *)
(* of a handler is the continuation that sends the response.               *)
(*                                                                         *)
(* The collection lives in MongoDB and outlives the process: a behaviour   *)
(* starts with the documents that earlier enroll and revoke calls stored.  *)
(***************************************************************************)
EXTENDS Integers, Sequences, FiniteSets, TLC

(***************************************************************************)
(* Bounds of the model                                                     *)
(***************************************************************************)
\* request handlers that may be in flight at the same time
NumSlots == 2
\* requests received by the process in one behaviour
MaxCalls == 2

\* values crypto.randomBytes(16) may return for an IV: 0..MaxIV
MaxIV == 0
\* IV values of the envelope specification, where no IV is drawn twice: 0..MaxNonce
MaxNonce == 1
MaxRestarts == 1
\* runs of the migration script in one behaviour
MaxRuns == 2

(***************************************************************************)
(* Program constants                                                       *)
(***************************************************************************)
\* crypto.randomBytes(16): length of the IV in bytes
IV_LEN == 16
\* length of the GCM authentication tag in bytes
TAG_LEN == 16
\* 10 * 1024 * 1024: the size ceiling used by the route, setTemplate and the schema validator
MAX_TEMPLATE_BYTES == 10485760
\* express.json({ limit: '10mb' }): the largest request body the parser accepts, in bytes
BODY_LIMIT == 10485760

\* number of distinct buffer contents of one length; the cipher adds the key stream modulo this
BodySpace == 3

VARIABLES
    employees,      \* Employee collection: sequence of documents, _id = index
    attendance,     \* Attendance collection: sequence of documents, _id = index
    migration,      \* the run of scripts/migrateFingerprintsToEncrypted.js
    fingerprints,   \* Fingerprint collection: sequence of documents, _id = index
    key,            \* ENCRYPTION_KEY of the running process
    pc,             \* per slot: position of the handler
    req,            \* per slot: the request being served
    doc,            \* per slot: handler-local values (loaded / constructed document, query results)
    res,            \* the response sent last
    auditLog,       \* the audit lines written to the console so far
    calls           \* number of requests received since the start; also the clock
                    \* (new Date()): stored documents carry dates before the start

vars == <<employees, attendance, migration, fingerprints, key, pc, req, doc, res, auditLog, calls>>

Slots == 1..NumSlots

(***************************************************************************)
(* JSON values of a request body                                           *)
(***************************************************************************)
Undef == [t |-> "undefined", v |-> 0]
Null == [t |-> "null", v |-> 0]
Num(n) == [t |-> "number", v |-> n]
NaN == [t |-> "NaN", v |-> 0]

\* parseInt(x) for the JSON values above; a non-numeric string and null give NaN
parseInt(x) == IF x.t = "number" THEN x ELSE NaN

isNaN(x) == x.t = "NaN"

(***************************************************************************)
(* Buffers, Base64, hashing and encryption (src/models/User.js)            *)
(*                                                                         *)
(* A Buffer is [len, body]: its length in bytes and its content, one of    *)
(* BodySpace contents of that length.  A Base64 text is [t, chars, body]:  *)
(* the number of Base64 alphabet characters and the content they encode.   *)
(***************************************************************************)
NoBuffer == [len |-> 0, body |-> 0]

Text(c, b) == [t |-> "string", chars |-> c, body |-> b]

NoText == [t |-> "undefined", chars |-> 0, body |-> 0]

\* JavaScript truthiness of a string-or-undefined value: "" and undefined are falsy
Truthy(x) == x.t = "string" /\ x.chars > 0

\* Buffer.from(text, 'base64'): four characters give three bytes, a rest of
\* two or three characters gives one or two bytes, a rest of one gives none
BufferFromBase64(text) ==
    LET n == (text.chars * 3) \div 4
    IN [len |-> n, body |-> IF n = 0 THEN 0 ELSE text.body]

\* buffer.toString('base64')
BufferToBase64(buf) == Text((buf.len * 4 + 2) \div 3, buf.body)

\* crypto.createHash('sha256').update(b).digest('hex'), collision free
hashTemplate(templateBuffer) == <<"sha256", templateBuffer.len, templateBuffer.body>>

\* the key stream AES-CTR derives from key and IV
KeyStream(k, iv) == (2 * k + iv + 1) % BodySpace

\* GcmTag that does not depend on the key
GcmTagKeyless(k, iv, ciphertext) == <<0, iv, ciphertext.len, ciphertext.body>>

\* the GCM tag: a MAC over key, IV and ciphertext, collision free
GcmTag(k, iv, ciphertext) == <<k, iv, ciphertext.len, ciphertext.body>>

NoTag == <<0, 0, 0, 0>>

NoEnvelope == [len |-> 0, iv |-> 0, authTag |-> NoTag, body |-> 0]

\* encryptTemplate with the tag left out of the envelope
encryptTemplateNoTag(plaintext, iv, k) ==
    LET ciphertext == [len |-> plaintext.len,
                       body |-> (plaintext.body + KeyStream(k, iv)) % BodySpace]
    IN [len |-> IV_LEN + ciphertext.len,
        iv |-> iv,
        authTag |-> GcmTag(k, iv, ciphertext),
        body |-> ciphertext.body]

\* encryptTemplate: Buffer.concat([iv, authTag, ciphertext])
encryptTemplate(plaintext, iv, k) ==
    LET ciphertext == [len |-> plaintext.len,
                       body |-> (plaintext.body + KeyStream(k, iv)) % BodySpace]
    IN [len |-> IV_LEN + TAG_LEN + ciphertext.len,
        iv |-> iv,
        authTag |-> GcmTag(k, iv, ciphertext),
        body |-> ciphertext.body]

\* DecryptFails without the verification of the tag
DecryptFailsNoTagCheck(encrypted, k) == encrypted.len < IV_LEN + TAG_LEN

\* decipher.final() throws when the tag does not verify
DecryptFails(encrypted, k) ==
    LET ciphertext == [len |-> encrypted.len - (IV_LEN + TAG_LEN), body |-> encrypted.body]
    IN \/ encrypted.len < IV_LEN + TAG_LEN
       \/ encrypted.authTag # GcmTag(k, encrypted.iv, ciphertext)

\* decryptTemplate with the key stream of a fixed IV instead of the envelope's
decryptTemplateFixedStream(encrypted, k) ==
    [len |-> encrypted.len - (IV_LEN + TAG_LEN),
     body |-> (encrypted.body + BodySpace - KeyStream(k, 0)) % BodySpace]

\* decryptTemplate: slices the envelope at 0:16, 16:32 and 32:
decryptTemplate(encrypted, k) ==
    [len |-> encrypted.len - (IV_LEN + TAG_LEN),
     body |-> (encrypted.body + BodySpace - KeyStream(k, encrypted.iv)) % BodySpace]

(***************************************************************************)
(* Fingerprint documents (fingerprintSchema, src/models/User.js)           *)
(***************************************************************************)
\* a time that was never stamped (the clock starts at 1)
NoDate == 0

NoFingerprint ==
    [employeeId |-> "", fingerIndex |-> Undef, fingerName |-> "", format |-> "",
     quality |-> Undef, encryptedTemplate |-> NoEnvelope, templateHash |-> <<"", 0, 0>>,
     enrolledBy |-> "", enrolledAt |-> NoDate, status |-> "",
     revokedAt |-> NoDate, revokedBy |-> "", revokeReason |-> "",
     lastVerifiedAt |-> NoDate, verificationCount |-> 0]

validFormats == {"ISO_19794_2", "ISO_19794_4", "ANSI_378", "PROPRIETARY"}

fingerNames ==
    {"RIGHT_THUMB", "RIGHT_INDEX", "RIGHT_MIDDLE", "RIGHT_RING", "RIGHT_PINKY",
     "LEFT_THUMB", "LEFT_INDEX", "LEFT_MIDDLE", "LEFT_RING", "LEFT_PINKY", "UNKNOWN"}

\* new Fingerprint({...}) in POST /enroll, with the schema defaults
NewFingerprint(r, now) ==
    [NoFingerprint EXCEPT
        !.employeeId = r.employeeId,
        !.fingerIndex = IF r.fingerIndex # Undef THEN parseInt(r.fingerIndex) ELSE Undef,
        !.fingerName = IF r.fingerName # "" THEN r.fingerName ELSE "UNKNOWN",
        !.format = IF r.format # "" THEN r.format ELSE "ISO_19794_2",
        !.quality = IF r.quality # Undef THEN parseInt(r.quality) ELSE Undef,
        !.enrolledBy = r.username,
        !.enrolledAt = now,
        !.status = "ACTIVE",
        !.verificationCount = 0]

\* the size check of setTemplate, which throws
SetTemplateThrows(templateBuffer) ==
    templateBuffer.len = 0 \/ templateBuffer.len > MAX_TEMPLATE_BYTES

\* setTemplate with one IV for every call
setTemplateFixedIV(fp, templateBuffer, iv, k) ==
    [fp EXCEPT
        !.templateHash = hashTemplate(templateBuffer),
        !.encryptedTemplate = encryptTemplate(templateBuffer, 0, k)]

\* fingerprintSchema.methods.setTemplate: hash first, then encrypt
setTemplate(fp, templateBuffer, iv, k) ==
    [fp EXCEPT
        !.templateHash = hashTemplate(templateBuffer),
        !.encryptedTemplate = encryptTemplate(templateBuffer, iv, k)]

\* a Number path of the schema with min and max: NaN does not cast, a number must be in range
NumberPathValid(x, lo, hi) ==
    \/ x = Undef
    \/ x.t = "number" /\ x.v >= lo /\ x.v <= hi

\* the validators mongoose runs in save(): casts, enums, ranges and the
\* encryptedTemplate length validator
SchemaValid(fp) ==
    /\ fp.employeeId # ""
    /\ NumberPathValid(fp.fingerIndex, 0, 9)
    /\ fp.fingerName \in fingerNames
    /\ fp.format \in validFormats
    /\ NumberPathValid(fp.quality, 0, 100)
    /\ fp.encryptedTemplate.len > 0
    /\ fp.encryptedTemplate.len <= MAX_TEMPLATE_BYTES
    /\ fp.enrolledBy # ""

Ids(coll) == DOMAIN coll

\* DuplicateKey without the unique index on templateHash
DuplicateKeyNoIndex(coll, fp) == FALSE

\* templateHash: { unique: true }: the unique index rejects an insert whose
\* templateHash is the templateHash of any stored document
DuplicateKey(coll, fp) ==
    \E i \in Ids(coll) : coll[i].templateHash = fp.templateHash

\* templateExists without the status filter of its query
templateExistsAnyStatus(coll, templateHash) ==
    Cardinality({i \in Ids(coll) : coll[i].templateHash = templateHash}) > 0

\* templateExists with a query for every status but REVOKED
templateExistsNotRevoked(coll, templateHash) ==
    Cardinality({i \in Ids(coll) :
        coll[i].templateHash = templateHash /\ coll[i].status # "REVOKED"}) > 0

\* fingerprintSchema.statics.templateExists: countDocuments({templateHash, status: 'ACTIVE'}) > 0
templateExists(coll, templateHash) ==
    Cardinality({i \in Ids(coll) :
        coll[i].templateHash = templateHash /\ coll[i].status = "ACTIVE"}) > 0

\* revoke written as a switch: it gives a REVOKED document its ACTIVE status back
revokeToggle(fp, revokedBy, reason, now) ==
    [fp EXCEPT
        !.status = IF fp.status = "REVOKED" THEN "ACTIVE" ELSE "REVOKED",
        !.revokedAt = now,
        !.revokedBy = revokedBy,
        !.revokeReason = IF reason # "" THEN reason ELSE "No reason provided"]

\* revoke without the default of the reason
revokeNoSentinel(fp, revokedBy, reason, now) ==
    [fp EXCEPT
        !.status = "REVOKED",
        !.revokedAt = now,
        !.revokedBy = revokedBy,
        !.revokeReason = reason]

\* fingerprintSchema.methods.revoke
revoke(fp, revokedBy, reason, now) ==
    [fp EXCEPT
        !.status = "REVOKED",
        !.revokedAt = now,
        !.revokedBy = revokedBy,
        !.revokeReason = IF reason # "" THEN reason ELSE "No reason provided"]

\* recordVerification that counts for ACTIVE documents only
recordVerificationActiveOnly(fp, now) ==
    IF fp.status = "ACTIVE"
    THEN [fp EXCEPT !.lastVerifiedAt = now, !.verificationCount = fp.verificationCount + 1]
    ELSE fp

\* fingerprintSchema.methods.recordVerification
recordVerification(fp, now) ==
    [fp EXCEPT
        !.lastVerifiedAt = now,
        !.verificationCount = fp.verificationCount + 1]

\* document.save() of a loaded document: the paths the handler assigned are
\* written to the stored document with that _id, the others are left as stored
SaveRevoked(coll, id, fp) ==
    [coll EXCEPT ![id] = [@ EXCEPT
        !.status = fp.status,
        !.revokedAt = fp.revokedAt,
        !.revokedBy = fp.revokedBy,
        !.revokeReason = fp.revokeReason]]

(***************************************************************************)
(* Employee documents (employeeSchema, src/models/Employee.js)             *)
(***************************************************************************)
NoEmployee ==
    [employeeId |-> "", name |-> "", fingerprintTemplate |-> NoText, createdBy |-> ""]

\* the employee POST /employees stored before the process started
StoredEmployee ==
    [employeeId |-> "EMP001", name |-> "Asha", fingerprintTemplate |-> Text(2, 1),
     createdBy |-> "admin"]

\* the employeeId values Employee.findOne({ employeeId }) finds
EmployeeIds(coll) == {coll[i].employeeId : i \in DOMAIN coll} \ {""}

(***************************************************************************)
(* Attendance documents (attendanceSchema, src/models/Attendance.js)       *)
(***************************************************************************)
\* Date.prototype.setHours(23, 59, 59, 999): the millisecond of the day it sets
END_OF_DAY == 86399999

\* a Date as the calendar day and the millisecond of that day in the time
\* zone of the server; day 0 stands for no date given, day -1 for Invalid Date
NoDay == [day |-> 0, ms |-> 0]

InvalidDate == [day |-> -1, ms |-> 0]

\* date.setHours(h, m, s, ms): the same day at the given millisecond
setHours(date, ms) == [day |-> date.day, ms |-> ms]

\* the order of two Dates
Earlier(a, b) == a.day < b.day \/ (a.day = b.day /\ a.ms < b.ms)

NoLocation == [latitude |-> 0, longitude |-> 0]

NoAttendance ==
    [employeeId |-> "", employeeName |-> "", date |-> NoDay, status |-> "",
     fingerprintTemplate |-> NoText, markedBy |-> "", createdAt |-> 0]

\* the state of the migration script before it is run
NoMigration ==
    [pc |-> "idle", employees |-> <<>>, cursor |-> 0, fp |-> NoFingerprint,
     migrated |-> 0, skipped |-> 0, failed |-> 0, runs |-> 0, created |-> 0]

(***************************************************************************)
(* Requests, handler-local values and responses                            *)
(***************************************************************************)
NoRequest ==
    [op |-> "", employeeId |-> "", templateBase64 |-> NoText, format |-> "",
     fingerIndex |-> Undef, fingerName |-> "", quality |-> Undef,
     id |-> 0, reason |-> "", username |-> "", status |-> "",
     date |-> NoDay, location |-> NoLocation, name |-> "",
     fingerprintTemplate |-> NoText,
     token |-> "", role |-> ""]

NoLocal ==
    [employeeFound |-> FALSE, found |-> FALSE, id |-> 0, fp |-> NoFingerprint,
     isDuplicate |-> FALSE, saveError |-> "", list |-> <<>>,
     employee |-> NoEmployee, existing |-> FALSE, attendance |-> NoAttendance]

\* what the answered call was, kept next to its response: the operation, the
\* _id it named, the hash of the template it carried, the slots whose
\* handlers were in flight when the response was sent, and the request
NoCall ==
    [op |-> "", id |-> 0, templateHash |-> <<"", 0, 0>>, during |-> {},
     request |-> NoRequest]

NoResponse ==
    [code |-> 0, message |-> "", id |-> 0, fingerprint |-> NoFingerprint,
     fingerprints |-> <<>>, template |-> NoText, call |-> NoCall,
     employee |-> NoEmployee, employees |-> <<>>,
     attendance |-> NoAttendance, records |-> <<>>]

\* res.status(code).json({success: false, message})
ErrorResponse(code, message) ==
    [NoResponse EXCEPT !.code = code, !.message = message]

\* POST /enroll bodies: a well-formed body, and the bodies that differ from
\* it in one field
BaseEnroll ==
    [NoRequest EXCEPT !.op = "enroll", !.employeeId = "EMP001",
        !.templateBase64 = Text(2, 1), !.username = "admin"]

EnrollRequests ==
    {BaseEnroll}
    \cup {[BaseEnroll EXCEPT !.employeeId = e] : e \in {"EMP404"}}
    \cup {[BaseEnroll EXCEPT !.templateBase64 = t] : t \in {Text(2, 2)}}
    \cup {[BaseEnroll EXCEPT !.fingerIndex = i] : i \in {Null}}

\* _id values a request may name: 0 stands for a string that is no ObjectId,
\* the others are the stored _ids and one that is not stored
IdInputs == 0..(Len(fingerprints) + 1)

\* who asks, and the reason given with a revocation
Usernames == {"admin", "root"}

Reason(username) == IF username = "root" THEN "lost" ELSE ""

\* the audit lines written with console.log
AuditEvent(action, id, employeeId, actor, status) ==
    [action |-> action, recordId |-> id, employeeId |-> employeeId,
     actor |-> actor, status |-> status]

\* a request is taken by the lowest slot that serves none
Free(s) == pc[s] = "idle"

\* the slots other than s whose handlers are in flight
InFlight(s) == {t \in Slots \ {s} : pc[t] # "idle"}

Accepts(s) ==
    /\ calls < MaxCalls
    /\ Free(s)
    /\ \A t \in Slots : t < s => ~Free(t)

\* the response is sent: the request and the locals of the handler are dropped
Respond(s, response) ==
    /\ pc' = [pc EXCEPT ![s] = "idle"]
    /\ res' = [response EXCEPT
            !.call = [op |-> req[s].op, id |-> req[s].id,
                      templateHash |-> doc[s].fp.templateHash, during |-> InFlight(s),
                      request |-> req[s]]]
    /\ req' = [req EXCEPT ![s] = NoRequest]
    /\ doc' = [doc EXCEPT ![s] = NoLocal]

(***************************************************************************)
(* POST /enroll (src/routes/fingerprintRoutes.js)                          *)
(***************************************************************************)
\* lines 45-89: the message of the first failing check, "" when all pass
EnrollValidationError(r) ==
    IF r.employeeId = "" THEN "employeeId is required"
    ELSE IF ~Truthy(r.templateBase64) THEN "templateBase64 is required"
    ELSE IF r.format # "" /\ r.format \notin validFormats THEN "Invalid format"
    ELSE IF /\ r.fingerIndex # Undef /\ r.fingerIndex # Null
            /\ LET idx == parseInt(r.fingerIndex)
               IN isNaN(idx) \/ idx.v < 0 \/ idx.v > 9
         THEN "fingerIndex must be between 0 and 9"
    ELSE IF /\ r.quality # Undef /\ r.quality # Null
            /\ LET q == parseInt(r.quality)
               IN isNaN(q) \/ q.v < 0 \/ q.v > 100
         THEN "quality must be between 0 and 100"
    ELSE ""

\* express.json refuses a body longer than its limit before the handler runs;
\* the body holds at least the characters of templateBase64
BodyTooLarge(r) == r.templateBase64.chars > BODY_LIMIT

\* the request arrives, is parsed and validated, and Employee.findOne({employeeId}) is read
EnrollValidate(s, r) ==
    /\ Accepts(s)
    /\ calls' = calls + 1
    /\ LET err == EnrollValidationError(r)
       IN IF BodyTooLarge(r) \/ err # ""
          THEN /\ res' = [(IF BodyTooLarge(r)
                            THEN ErrorResponse(413, "request entity too large")
                            ELSE ErrorResponse(400, err)) EXCEPT
                            !.call = [NoCall EXCEPT !.op = "enroll", !.during = InFlight(s),
                                                    !.request = r]]
               /\ UNCHANGED <<pc, req, doc>>
          ELSE /\ pc' = [pc EXCEPT ![s] = "enroll_employee"]
               /\ req' = [req EXCEPT ![s] = r]
               /\ doc' = [doc EXCEPT ![s] =
                            [NoLocal EXCEPT !.employeeFound = r.employeeId \in EmployeeIds(employees)]]
               /\ UNCHANGED res
    /\ UNCHANGED <<employees, attendance, migration, fingerprints, key, auditLog>>

\* lines 96-164: employee check, decode, size check, new Fingerprint,
\* setTemplate with a fresh IV, then the templateExists query is read
EnrollCheckDuplicate(s, iv) ==
    /\ pc[s] = "enroll_employee"
    /\ LET r == req[s]
           templateBuffer == BufferFromBase64(r.templateBase64)
           fingerprint == setTemplate(NewFingerprint(r, calls), templateBuffer, iv, key)
       IN IF ~doc[s].employeeFound
          THEN Respond(s, ErrorResponse(404, "Employee not found"))
          ELSE IF templateBuffer.len = 0 \/ templateBuffer.len > MAX_TEMPLATE_BYTES
          THEN Respond(s, ErrorResponse(400, "Template size must be between 1 byte and 10MB"))
          ELSE IF SetTemplateThrows(templateBuffer)
          THEN Respond(s, ErrorResponse(400, "Template processing failed"))
          ELSE /\ pc' = [pc EXCEPT ![s] = "enroll_dupcheck"]
               /\ doc' = [doc EXCEPT ![s] = [@ EXCEPT
                            !.fp = fingerprint,
                            !.isDuplicate = templateExists(fingerprints, fingerprint.templateHash)]]
               /\ UNCHANGED <<req, res>>
    /\ UNCHANGED <<employees, attendance, migration, fingerprints, key, auditLog, calls>>

\* the outcome of fingerprint.save() for a new document: "" when it is inserted
InsertError(coll, fp) ==
    IF ~SchemaValid(fp) THEN "ValidationError"
    ELSE IF DuplicateKey(coll, fp) THEN "E11000"
    ELSE ""

\* lines 165-176: the duplicate answer, else fingerprint.save() reaches the collection
EnrollSave(s) ==
    /\ pc[s] = "enroll_dupcheck"
    /\ IF doc[s].isDuplicate
       THEN /\ Respond(s, ErrorResponse(409, "already enrolled (duplicate detected)"))
            /\ UNCHANGED fingerprints
       ELSE LET err == InsertError(fingerprints, doc[s].fp)
            IN /\ pc' = [pc EXCEPT ![s] = "enroll_saved"]
               /\ fingerprints' = IF err = "" THEN Append(fingerprints, doc[s].fp)
                                  ELSE fingerprints
               /\ doc' = [doc EXCEPT ![s] = [@ EXCEPT
                            !.saveError = err,
                            !.id = IF err = "" THEN Len(fingerprints) + 1 ELSE 0]]
               /\ UNCHANGED <<req, res>>
    /\ UNCHANGED <<employees, attendance, migration, key, auditLog, calls>>

\* lines 199-215: the catch block of POST /enroll
EnrollCatch(error) ==
    IF error = "E11000"
    THEN ErrorResponse(409, "Duplicate fingerprint template detected")
    ELSE ErrorResponse(500, "Server error during fingerprint enrollment")

\* EnrollView that sends the document as it is
EnrollViewWholeDocument(fp) == fp

\* lines 182-197: the view of the enrolled document in the 201 response
EnrollView(fp) ==
    [NoFingerprint EXCEPT
        !.employeeId = fp.employeeId, !.fingerIndex = fp.fingerIndex,
        !.fingerName = fp.fingerName, !.format = fp.format, !.quality = fp.quality,
        !.status = fp.status, !.enrolledBy = fp.enrolledBy, !.enrolledAt = fp.enrolledAt]

\* save() has returned: the post('save') hook logs and 201 is sent, or the catch block answers
EnrollRespond(s) ==
    /\ pc[s] = "enroll_saved"
    /\ IF doc[s].saveError = ""
       THEN /\ auditLog' = auditLog \o
                    <<AuditEvent("saved", 0, doc[s].fp.employeeId, "", doc[s].fp.status)>>
            /\ Respond(s, [NoResponse EXCEPT
                    !.code = 201, !.message = "Fingerprint enrolled successfully",
                    !.id = doc[s].id, !.fingerprint = EnrollView(doc[s].fp)])
       ELSE /\ Respond(s, EnrollCatch(doc[s].saveError))
            /\ UNCHANGED auditLog
    /\ UNCHANGED <<employees, attendance, migration, fingerprints, key, calls>>

(***************************************************************************)
(* GET /template/:id (src/routes/fingerprintRoutes.js)                     *)
(***************************************************************************)
\* requests naming an _id: "admin" names any, "root" names the first document
IdRequests(op) ==
    {[NoRequest EXCEPT !.op = op, !.id = p[1], !.username = p[2],
        !.reason = IF op = "revoke" THEN Reason(p[2]) ELSE ""] :
     p \in {q \in IdInputs \X Usernames : q[1] = 1 \/ q[2] = "admin"}}

\* Fingerprint.findById(id): the request arrives and the document is read;
\* an id that is no ObjectId makes the query throw, which the catch block answers
FindById(s, r, next, failure) ==
    /\ Accepts(s)
    /\ calls' = calls + 1
    /\ IF r.id = 0
       THEN /\ res' = [ErrorResponse(500, failure) EXCEPT
                         !.call = [NoCall EXCEPT !.op = r.op, !.id = r.id,
                                      !.during = InFlight(s), !.request = r]]
            /\ UNCHANGED <<pc, req, doc>>
       ELSE /\ pc' = [pc EXCEPT ![s] = next]
            /\ req' = [req EXCEPT ![s] = r]
            /\ doc' = [doc EXCEPT ![s] =
                         IF r.id \in Ids(fingerprints)
                         THEN [NoLocal EXCEPT !.found = TRUE, !.id = r.id,
                                              !.fp = fingerprints[r.id]]
                         ELSE NoLocal]
            /\ UNCHANGED res
    /\ UNCHANGED <<employees, attendance, migration, fingerprints, key, auditLog>>

RetrieveLoad(s, r) == FindById(s, r, "retrieve_loaded", "Server error retrieving template")

\* RetrieveAllowed without the status check
RetrieveAllowedAnyStatus(fp) == TRUE

\* line 298: only an ACTIVE document may be decrypted
RetrieveAllowed(fp) == fp.status = "ACTIVE"

\* GetTemplateThrows that fails for the first request only
GetTemplateThrowsOnce(fp, k) ==
    calls < 2 /\ (fp.encryptedTemplate = NoEnvelope \/ DecryptFails(fp.encryptedTemplate, k))

\* fingerprintSchema.methods.getTemplate throws when there is no envelope or
\* when decryption fails
GetTemplateThrows(fp, k) ==
    fp.encryptedTemplate = NoEnvelope \/ DecryptFails(fp.encryptedTemplate, k)

\* fingerprintSchema.methods.getTemplateBase64
getTemplateBase64(fp, k) == BufferToBase64(decryptTemplate(fp.encryptedTemplate, k))

\* TemplateAccessAudit without the name of the actor
TemplateAccessAuditNoActor(id, fp, username) ==
    <<AuditEvent("accessed", id, fp.employeeId, "", "")>>

\* line 310: the audit line of a template access
TemplateAccessAudit(id, fp, username) ==
    <<AuditEvent("accessed", id, fp.employeeId, username, "")>>

\* lines 312-321: the view sent with the template
RetrieveView(fp) ==
    [NoFingerprint EXCEPT
        !.employeeId = fp.employeeId, !.fingerIndex = fp.fingerIndex, !.format = fp.format]

\* lines 290-328: the continuation of findById checks the document it was
\* given, decrypts, logs the access and sends the template
RetrieveRespond(s) ==
    /\ pc[s] = "retrieve_loaded"
    /\ LET fingerprint == doc[s].fp
       IN IF ~doc[s].found
          THEN /\ Respond(s, ErrorResponse(404, "Fingerprint not found"))
               /\ UNCHANGED auditLog
          ELSE IF ~RetrieveAllowed(fingerprint)
          THEN /\ Respond(s, [ErrorResponse(403, "Cannot retrieve template: status is")
                                EXCEPT !.fingerprint = [NoFingerprint EXCEPT
                                            !.status = fingerprint.status]])
               /\ UNCHANGED auditLog
          ELSE IF GetTemplateThrows(fingerprint, key)
          THEN /\ Respond(s, ErrorResponse(500, "Failed to decrypt template"))
               /\ UNCHANGED auditLog
          ELSE /\ auditLog' = auditLog \o
                    TemplateAccessAudit(doc[s].id, fingerprint, req[s].username)
               /\ Respond(s, [NoResponse EXCEPT
                    !.code = 200, !.id = doc[s].id,
                    !.fingerprint = RetrieveView(fingerprint),
                    !.template = getTemplateBase64(fingerprint, key)])
    /\ UNCHANGED <<employees, attendance, migration, fingerprints, key, calls>>

(***************************************************************************)
(* DELETE /:id (src/routes/fingerprintRoutes.js)                           *)
(***************************************************************************)
RevokeLoad(s, r) == FindById(s, r, "revoke_loaded", "Server error deleting fingerprint")

\* lines 353-362: the continuation of findById revokes the document it was
\* given and save() reaches the collection
RevokeSave(s) ==
    /\ pc[s] = "revoke_loaded"
    /\ IF ~doc[s].found
       THEN /\ Respond(s, ErrorResponse(404, "Fingerprint not found"))
            /\ UNCHANGED fingerprints
       ELSE LET fingerprint == revoke(doc[s].fp, req[s].username, req[s].reason, calls)
                err == IF SchemaValid(fingerprint) THEN "" ELSE "ValidationError"
            IN /\ pc' = [pc EXCEPT ![s] = "revoke_saved"]
               /\ doc' = [doc EXCEPT ![s] = [@ EXCEPT !.fp = fingerprint, !.saveError = err]]
               /\ fingerprints' = IF err = ""
                                  THEN SaveRevoked(fingerprints, doc[s].id, fingerprint)
                                  ELSE fingerprints
               /\ UNCHANGED <<req, res>>
    /\ UNCHANGED <<employees, attendance, migration, key, auditLog, calls>>

\* lines 366-377: the view sent by DELETE /:id
RevokeView(fp) ==
    [NoFingerprint EXCEPT
        !.employeeId = fp.employeeId, !.status = fp.status, !.revokedAt = fp.revokedAt,
        !.revokedBy = fp.revokedBy, !.revokeReason = fp.revokeReason]

\* RevokeAudit without the line of DELETE /:id
RevokeAuditHookOnly(id, fp, username) ==
    <<AuditEvent("saved", 0, fp.employeeId, "", fp.status)>>

\* the lines a saved revocation writes: the post('save') hook, then line 364
RevokeAudit(id, fp, username) ==
    <<AuditEvent("saved", 0, fp.employeeId, "", fp.status),
      AuditEvent("revoked", id, fp.employeeId, username, "")>>

\* save() has returned: the post('save') hook and line 364 log, 200 is sent
RevokeRespond(s) ==
    /\ pc[s] = "revoke_saved"
    /\ IF doc[s].saveError = ""
       THEN /\ auditLog' = auditLog \o RevokeAudit(doc[s].id, doc[s].fp, req[s].username)
            /\ Respond(s, [NoResponse EXCEPT
                    !.code = 200, !.message = "Fingerprint revoked successfully",
                    !.id = doc[s].id, !.fingerprint = RevokeView(doc[s].fp)])
       ELSE /\ Respond(s, ErrorResponse(500, "Server error deleting fingerprint"))
            /\ UNCHANGED auditLog
    /\ UNCHANGED <<employees, attendance, migration, fingerprints, key, calls>>

(***************************************************************************)
(* recordVerification                                                      *)
(*                                                                         *)
(* The schema method is in src/models/User.js; no route calls it.  Its     *)
(* caller is the verification workflow the specification names: it loads   *)
(* the document by _id, calls recordVerification() and saves.              *)
(***************************************************************************)
VerifyRequests == {[NoRequest EXCEPT !.op = "verify", !.id = i] : i \in IdInputs \ {0}}

VerifyLoad(s, r) == FindById(s, r, "verify_loaded", "Server error")

\* document.save() after recordVerification(): the two assigned paths are written
SaveVerified(coll, id, fp) ==
    [coll EXCEPT ![id] = [@ EXCEPT
        !.lastVerifiedAt = fp.lastVerifiedAt,
        !.verificationCount = fp.verificationCount]]

VerifySave(s) ==
    /\ pc[s] = "verify_loaded"
    /\ IF ~doc[s].found
       THEN /\ Respond(s, ErrorResponse(404, "Fingerprint not found"))
            /\ UNCHANGED fingerprints
       ELSE LET fingerprint == recordVerification(doc[s].fp, calls)
            IN /\ pc' = [pc EXCEPT ![s] = "verify_saved"]
               /\ doc' = [doc EXCEPT ![s] = [@ EXCEPT !.fp = fingerprint]]
               /\ fingerprints' = SaveVerified(fingerprints, doc[s].id, fingerprint)
               /\ UNCHANGED <<req, res>>
    /\ UNCHANGED <<employees, attendance, migration, key, auditLog, calls>>

\* save() has returned: the post('save') hook logs
VerifyRespond(s) ==
    /\ pc[s] = "verify_saved"
    /\ auditLog' = auditLog \o
            <<AuditEvent("saved", 0, doc[s].fp.employeeId, "", doc[s].fp.status)>>
    /\ Respond(s, [NoResponse EXCEPT !.code = 200, !.id = doc[s].id])
    /\ UNCHANGED <<employees, attendance, migration, fingerprints, key, calls>>

(***************************************************************************)
(* The system                                                              *)
(***************************************************************************)
\* the document POST /enroll stored for BaseEnroll before the process started
StoredFingerprint(k) ==
    setTemplate(NewFingerprint(BaseEnroll, -2),
                BufferFromBase64(BaseEnroll.templateBase64), 0, k)

\* the collections the process may find when it starts: no document, the
\* document enrolled earlier, and that document revoked by DELETE /:id
StoredCollections(k) ==
    {<<>>,
     <<StoredFingerprint(k)>>,
     <<revoke(StoredFingerprint(k), BaseEnroll.username, Reason(BaseEnroll.username), -1)>>}

Init ==
    /\ employees = <<StoredEmployee>>
    /\ attendance = <<>>
    /\ migration = NoMigration
    /\ key = 1
    /\ fingerprints \in StoredCollections(key)
    /\ pc = [s \in Slots |-> "idle"]
    /\ req = [s \in Slots |-> NoRequest]
    /\ doc = [s \in Slots |-> NoLocal]
    /\ res = NoResponse
    /\ auditLog = <<>>
    /\ calls = 0

Next ==
    \/ \E s \in Slots, r \in EnrollRequests : EnrollValidate(s, r)
    \/ \E s \in Slots, iv \in 0..MaxIV : EnrollCheckDuplicate(s, iv)
    \/ \E s \in Slots : EnrollSave(s)
    \/ \E s \in Slots : EnrollRespond(s)
    \/ \E s \in Slots, r \in IdRequests("retrieve") : RetrieveLoad(s, r)
    \/ \E s \in Slots : RetrieveRespond(s)
    \/ \E s \in Slots, r \in IdRequests("revoke") : RevokeLoad(s, r)
    \/ \E s \in Slots : RevokeSave(s)
    \/ \E s \in Slots : RevokeRespond(s)
    \/ \E s \in Slots, r \in VerifyRequests : VerifyLoad(s, r)
    \/ \E s \in Slots : VerifySave(s)
    \/ \E s \in Slots : VerifyRespond(s)

Spec == Init /\ [][Next]_vars

(***************************************************************************)
(* GET /:employeeId and GET /list/all (src/routes/fingerprintRoutes.js)    *)
(***************************************************************************)
\* .sort({ createdAt: -1 }): the _ids of a set, newest first
NewestFirst(ids) ==
    CHOOSE f \in [1..Cardinality(ids) -> ids] :
        \A a, b \in 1..Cardinality(ids) : a < b => f[a] > f[b]

\* .select('-encryptedTemplate')
SelectWithoutTemplate(fp) == [fp EXCEPT !.encryptedTemplate = NoEnvelope]

\* Fingerprint.find(query).select('-encryptedTemplate').sort({ createdAt: -1 })
\* for the _ids that match the query
FindSelected(coll, ids) ==
    [n \in 1..Cardinality(ids) |->
        [id |-> NewestFirst(ids)[n],
         fingerprint |-> SelectWithoutTemplate(coll[NewestFirst(ids)[n]])]]

\* fingerprintSchema.methods.toJSON
toJSON(fp) == [fp EXCEPT !.encryptedTemplate = NoEnvelope]

\* GET /:employeeId for an employee that is stored and one that is not
ListByEmployeeRequests ==
    {[NoRequest EXCEPT !.op = "list", !.employeeId = e, !.username = "admin"] :
        e \in {"EMP001", "EMP404"}}

\* lines 228-233: the request arrives and Fingerprint.find({ employeeId }) is read
ListByEmployeeLoad(s, r) ==
    /\ Accepts(s)
    /\ calls' = calls + 1
    /\ pc' = [pc EXCEPT ![s] = "list_loaded"]
    /\ req' = [req EXCEPT ![s] = r]
    /\ doc' = [doc EXCEPT ![s] = [NoLocal EXCEPT !.list =
            FindSelected(fingerprints,
                {i \in Ids(fingerprints) : fingerprints[i].employeeId = r.employeeId})]]
    /\ UNCHANGED <<employees, attendance, migration, fingerprints, key, res, auditLog>>

\* lines 254-266: the fields GET /:employeeId sends of a document
ListByEmployeeView(fp) ==
    [NoFingerprint EXCEPT
        !.fingerIndex = fp.fingerIndex, !.fingerName = fp.fingerName,
        !.format = fp.format, !.quality = fp.quality, !.status = fp.status,
        !.enrolledBy = fp.enrolledBy, !.enrolledAt = fp.enrolledAt,
        !.lastVerifiedAt = fp.lastVerifiedAt,
        !.verificationCount = fp.verificationCount]

\* lines 236-268: Employee.findOne is read; 404, or the list that was found
ListByEmployeeRespond(s) ==
    /\ pc[s] = "list_loaded"
    /\ IF req[s].employeeId \notin EmployeeIds(employees)
       THEN Respond(s, ErrorResponse(404, "Employee not found"))
       ELSE Respond(s, [NoResponse EXCEPT
                !.code = 200,
                !.fingerprints = [n \in DOMAIN doc[s].list |->
                    [id |-> doc[s].list[n].id,
                     fingerprint |-> ListByEmployeeView(doc[s].list[n].fingerprint)]]])
    /\ UNCHANGED <<employees, attendance, migration, fingerprints, key, auditLog, calls>>

\* status.toUpperCase() of the query string
toUpperCase(status) ==
    IF status = "active" THEN "ACTIVE"
    ELSE IF status = "revoked" THEN "REVOKED"
    ELSE status

\* GET /list/all with and without ?status=, with the default page and limit
ListAllRequests ==
    {[NoRequest EXCEPT !.op = "listall", !.status = q, !.username = "root"] :
        q \in {"", "active"}}

\* lines 397-414: the request arrives and Fingerprint.find(query) is read
ListAllLoad(s, r) ==
    /\ Accepts(s)
    /\ calls' = calls + 1
    /\ pc' = [pc EXCEPT ![s] = "listall_loaded"]
    /\ req' = [req EXCEPT ![s] = r]
    /\ doc' = [doc EXCEPT ![s] = [NoLocal EXCEPT !.list =
            FindSelected(fingerprints,
                {i \in Ids(fingerprints) :
                    r.status = "" \/ fingerprints[i].status = toUpperCase(r.status)})]]
    /\ UNCHANGED <<employees, attendance, migration, fingerprints, key, res, auditLog>>

\* lines 420-432: the fields GET /list/all sends of a document
ListAllView(fp) ==
    [NoFingerprint EXCEPT
        !.employeeId = fp.employeeId, !.fingerIndex = fp.fingerIndex,
        !.fingerName = fp.fingerName, !.format = fp.format, !.quality = fp.quality,
        !.status = fp.status, !.enrolledBy = fp.enrolledBy, !.enrolledAt = fp.enrolledAt]

\* lines 416-439: countDocuments is read and the list that was found is sent
ListAllRespond(s) ==
    /\ pc[s] = "listall_loaded"
    /\ Respond(s, [NoResponse EXCEPT
            !.code = 200,
            !.fingerprints = [n \in DOMAIN doc[s].list |->
                [id |-> doc[s].list[n].id,
                 fingerprint |-> ListAllView(doc[s].list[n].fingerprint)]]])
    /\ UNCHANGED <<employees, attendance, migration, fingerprints, key, auditLog, calls>>

\* the handlers that answer with views of documents
ViewNext ==
    \/ \E s \in Slots, r \in EnrollRequests : EnrollValidate(s, r)
    \/ \E s \in Slots, iv \in 0..MaxIV : EnrollCheckDuplicate(s, iv)
    \/ \E s \in Slots : EnrollSave(s)
    \/ \E s \in Slots : EnrollRespond(s)
    \/ \E s \in Slots, r \in IdRequests("retrieve") : RetrieveLoad(s, r)
    \/ \E s \in Slots : RetrieveRespond(s)
    \/ \E s \in Slots, r \in IdRequests("revoke") : RevokeLoad(s, r)
    \/ \E s \in Slots : RevokeSave(s)
    \/ \E s \in Slots : RevokeRespond(s)
    \/ \E s \in Slots, r \in ListByEmployeeRequests : ListByEmployeeLoad(s, r)
    \/ \E s \in Slots : ListByEmployeeRespond(s)
    \/ \E s \in Slots, r \in ListAllRequests : ListAllLoad(s, r)
    \/ \E s \in Slots : ListAllRespond(s)

ViewSpec == Init /\ [][ViewNext]_vars

(***************************************************************************)
(* Enroll inputs and envelopes                                             *)
(*                                                                         *)
(* The same handlers, with the bodies of POST /enroll that meet and miss   *)
(* each input constraint and with IVs that crypto.randomBytes never        *)
(* repeats.                                                                *)
(***************************************************************************)
\* the Base64 text of a buffer of n bytes with content b
TextOfLength(n, b) == BufferToBase64([len |-> n, body |-> b])

\* POST /enroll bodies: BaseEnroll and the bodies that differ from it in the
\* template, the finger position, the quality, the format or the employee
EnvelopeRequests ==
    {BaseEnroll}
    \cup {[BaseEnroll EXCEPT !.templateBase64 = t] :
            t \in {Text(1, 1), Text(BODY_LIMIT, 1),
                   TextOfLength(MAX_TEMPLATE_BYTES, 1),
                   TextOfLength(MAX_TEMPLATE_BYTES + 1, 1)}}
    \cup {[BaseEnroll EXCEPT !.fingerIndex = i] : i \in {Null, Num(9), Num(10)}}
    \cup {[BaseEnroll EXCEPT !.templateBase64 = Text(2, 2), !.fingerIndex = Num(9)]}
    \cup {[BaseEnroll EXCEPT !.quality = q] : q \in {Num(101)}}
    \cup {[BaseEnroll EXCEPT !.format = f] : f \in {"BMP"}}
    \cup {[BaseEnroll EXCEPT !.employeeId = e] : e \in {"EMP404"}}

\* GET /template/:id requests for the stored _ids and one that is not stored
EnvelopeRetrieves ==
    {[NoRequest EXCEPT !.op = "retrieve", !.id = i, !.username = "admin"] :
        i \in IdInputs \ {0}}

\* crypto.randomBytes(16) returns an IV that no envelope stored or being
\* built carries
FreshIVs ==
    {i \in 0..MaxNonce :
        /\ \A j \in Ids(fingerprints) : fingerprints[j].encryptedTemplate.iv # i
        /\ \A s \in Slots : \/ doc[s].fp.encryptedTemplate = NoEnvelope
                             \/ doc[s].fp.encryptedTemplate.iv # i}

EnvelopeInit ==
    /\ employees = <<StoredEmployee>>
    /\ attendance = <<>>
    /\ migration = NoMigration
    /\ key = 1
    /\ fingerprints = <<>>
    /\ pc = [s \in Slots |-> "idle"]
    /\ req = [s \in Slots |-> NoRequest]
    /\ doc = [s \in Slots |-> NoLocal]
    /\ res = NoResponse
    /\ auditLog = <<>>
    /\ calls = 0

EnvelopeNext ==
    \/ \E s \in Slots, r \in EnvelopeRequests : EnrollValidate(s, r)
    \/ \E s \in Slots, iv \in FreshIVs : EnrollCheckDuplicate(s, iv)
    \/ \E s \in Slots : EnrollSave(s)
    \/ \E s \in Slots : EnrollRespond(s)
    \/ \E s \in Slots, r \in EnvelopeRetrieves : RetrieveLoad(s, r)
    \/ \E s \in Slots : RetrieveRespond(s)

EnvelopeSpec == EnvelopeInit /\ [][EnvelopeNext]_vars

(***************************************************************************)
(* Stored envelopes changed after encryption                               *)
(*                                                                         *)
(* The process finds the stored document as it was enrolled, or with an    *)
(* envelope that differs from the enrolled one; GET /template/:id reads it.*)
(***************************************************************************)
\* the envelopes that differ from envelope e in the 16 bytes of the IV, in
\* the 16 bytes of the tag, or in the ciphertext
Tampered(e, k) ==
    {[e EXCEPT !.iv = i] : i \in (0..MaxNonce) \ {e.iv}}
    \cup {[e EXCEPT !.body = b] : b \in (0..(BodySpace - 1)) \ {e.body}}
    \cup {[e EXCEPT !.authTag = t] :
            t \in ({NoTag}
                   \cup {GcmTag(k, i, [len |-> e.len - (IV_LEN + TAG_LEN), body |-> e.body]) :
                            i \in 0..MaxNonce}
                   \cup {GcmTag(k, e.iv, [len |-> e.len - (IV_LEN + TAG_LEN), body |-> b]) :
                            b \in 0..(BodySpace - 1)}) \ {e.authTag}}

\* the stored document with its envelope changed after encryption
TamperedCollections(k) ==
    {<<[StoredFingerprint(k) EXCEPT !.encryptedTemplate = e]>> :
        e \in Tampered(StoredFingerprint(k).encryptedTemplate, k)}

TamperInit ==
    /\ employees = <<StoredEmployee>>
    /\ attendance = <<>>
    /\ migration = NoMigration
    /\ key = 1
    /\ fingerprints \in {<<StoredFingerprint(key)>>} \cup TamperedCollections(key)
    /\ pc = [s \in Slots |-> "idle"]
    /\ req = [s \in Slots |-> NoRequest]
    /\ doc = [s \in Slots |-> NoLocal]
    /\ res = NoResponse
    /\ auditLog = <<>>
    /\ calls = 0

TamperNext ==
    \/ \E s \in Slots, r \in IdRequests("retrieve") : RetrieveLoad(s, r)
    \/ \E s \in Slots : RetrieveRespond(s)

TamperSpec == TamperInit /\ [][TamperNext]_vars

(***************************************************************************)
(* The duplicate query over stored documents of every status               *)
(***************************************************************************)
\* the collections of StoredCollections, and the stored document with the
\* third status of the schema, which no handler assigns
StatusCollections(k) ==
    StoredCollections(k) \cup {<<[StoredFingerprint(k) EXCEPT !.status = "EXPIRED"]>>}

ExistsInit ==
    /\ employees = <<StoredEmployee>>
    /\ attendance = <<>>
    /\ migration = NoMigration
    /\ key = 1
    /\ fingerprints \in StatusCollections(key)
    /\ pc = [s \in Slots |-> "idle"]
    /\ req = [s \in Slots |-> NoRequest]
    /\ doc = [s \in Slots |-> NoLocal]
    /\ res = NoResponse
    /\ auditLog = <<>>
    /\ calls = 0

ExistsNext ==
    \/ \E s \in Slots, r \in EnrollRequests : EnrollValidate(s, r)
    \/ \E s \in Slots, iv \in 0..MaxIV : EnrollCheckDuplicate(s, iv)
    \/ \E s \in Slots : EnrollSave(s)
    \/ \E s \in Slots : EnrollRespond(s)

ExistsSpec == ExistsInit /\ [][ExistsNext]_vars

(***************************************************************************)
(* The process restarted with no FINGERPRINT_ENCRYPTION_KEY configured     *)
(***************************************************************************)
\* lines 214-215 of src/models/User.js at the next start of the process:
\* crypto.randomBytes(32) gives a key no earlier process had (the first
\* process has key 1 and every start draws the next number); the handlers in
\* flight are gone with the process, the collection and the log are kept
Restart ==
    /\ key < 1 + MaxRestarts
    /\ key' = key + 1
    /\ pc' = [s \in Slots |-> "idle"]
    /\ req' = [s \in Slots |-> NoRequest]
    /\ doc' = [s \in Slots |-> NoLocal]
    /\ UNCHANGED <<employees, attendance, migration, fingerprints, res, auditLog, calls>>

RestartInit ==
    /\ employees = <<StoredEmployee>>
    /\ attendance = <<>>
    /\ migration = NoMigration
    /\ key = 1
    /\ fingerprints = <<>>
    /\ pc = [s \in Slots |-> "idle"]
    /\ req = [s \in Slots |-> NoRequest]
    /\ doc = [s \in Slots |-> NoLocal]
    /\ res = NoResponse
    /\ auditLog = <<>>
    /\ calls = 0

RestartNext ==
    \/ \E s \in Slots : EnrollValidate(s, BaseEnroll)
    \/ \E s \in Slots, iv \in 0..MaxIV : EnrollCheckDuplicate(s, iv)
    \/ \E s \in Slots : EnrollSave(s)
    \/ \E s \in Slots : EnrollRespond(s)
    \/ \E s \in Slots, r \in IdRequests("retrieve") : RetrieveLoad(s, r)
    \/ \E s \in Slots : RetrieveRespond(s)
    \/ Restart

RestartSpec == RestartInit /\ [][RestartNext]_vars

(***************************************************************************)
(* POST /attendance/mark (src/routes/adminRoutes.js)                       *)
(***************************************************************************)
validStatuses == {"PRESENT", "ABSENT", "HALF_DAY", "LATE"}

\* lines 345-366: the message of the first failing check, "" when all pass
MarkValidationError(r) ==
    IF r.employeeId = "" \/ r.date = NoDay \/ r.status = "" \/ r.location = NoLocation
    THEN "employeeId, date, status, and location are required"
    ELSE IF r.location.latitude = 0 \/ r.location.longitude = 0
    THEN "Location must include latitude and longitude"
    ELSE IF r.status \notin validStatuses
    THEN "Invalid status"
    ELSE ""

\* a response sent in the step in which the request arrives
Reply(s, r, response) ==
    /\ res' = [response EXCEPT
            !.call = [NoCall EXCEPT !.op = r.op, !.id = r.id,
                                    !.during = InFlight(s), !.request = r]]
    /\ UNCHANGED <<pc, req, doc>>

\* Employee.findOne({ employeeId })
FindEmployee(coll, employeeId) ==
    IF employeeId \in EmployeeIds(coll)
    THEN coll[CHOOSE i \in DOMAIN coll : coll[i].employeeId = employeeId]
    ELSE NoEmployee

\* lines 340-369: the request arrives, is validated, and Employee.findOne is read
MarkValidate(s, r) ==
    /\ Accepts(s)
    /\ calls' = calls + 1
    /\ IF MarkValidationError(r) # ""
       THEN Reply(s, r, ErrorResponse(400, MarkValidationError(r)))
       ELSE /\ pc' = [pc EXCEPT ![s] = "mark_employee"]
            /\ req' = [req EXCEPT ![s] = r]
            /\ doc' = [doc EXCEPT ![s] =
                    [NoLocal EXCEPT !.employee = FindEmployee(employees, r.employeeId)]]
            /\ UNCHANGED res
    /\ UNCHANGED <<employees, attendance, migration, fingerprints, key, auditLog>>

\* lines 388-394: Attendance.findOne({ employeeId, date: { $gte: startOfDay,
\* $lt: endOfDay } }) finds a document
MarkQuery(coll, employeeId, attendanceDate) ==
    \E i \in DOMAIN coll :
        /\ coll[i].employeeId = employeeId
        /\ ~Earlier(coll[i].date, setHours(attendanceDate, 0))
        /\ Earlier(coll[i].date, setHours(attendanceDate, END_OF_DAY))

\* lines 371-394: 404 without the employee, 400 for an Invalid Date, else the
\* query for a document of that day is read
MarkCheckExisting(s) ==
    /\ pc[s] = "mark_employee"
    /\ IF doc[s].employee = NoEmployee
       THEN Respond(s, ErrorResponse(404, "Employee not found"))
       ELSE IF req[s].date = InvalidDate
       THEN Respond(s, ErrorResponse(400, "Invalid date format. Use ISO date string."))
       ELSE /\ pc' = [pc EXCEPT ![s] = "mark_checked"]
            /\ doc' = [doc EXCEPT ![s] = [@ EXCEPT
                    !.existing = MarkQuery(attendance, req[s].employeeId, req[s].date)]]
            /\ UNCHANGED <<req, res>>
    /\ UNCHANGED <<employees, attendance, migration, fingerprints, key, auditLog, calls>>

\* lines 409-423: new Attendance({...}); attendanceDate is the Date object the
\* two setHours calls of lines 388-389 have changed, the second one last
NewAttendance(r, employee, now) ==
    [employeeId |-> employee.employeeId,
     employeeName |-> employee.name,
     date |-> setHours(setHours(r.date, 0), END_OF_DAY),
     status |-> r.status,
     fingerprintTemplate |-> employee.fingerprintTemplate,
     markedBy |-> r.username,
     createdAt |-> now]

\* lines 396-425: 409 when the query found a document, else attendance.save()
\* inserts the new one
MarkSave(s) ==
    /\ pc[s] = "mark_checked"
    /\ IF doc[s].existing
       THEN /\ Respond(s, ErrorResponse(409,
                    "Attendance already marked for this employee on this date"))
            /\ UNCHANGED attendance
       ELSE /\ attendance' = Append(attendance,
                    NewAttendance(req[s], doc[s].employee, calls))
            /\ pc' = [pc EXCEPT ![s] = "mark_saved"]
            /\ doc' = [doc EXCEPT ![s] = [@ EXCEPT
                    !.id = Len(attendance) + 1,
                    !.attendance = NewAttendance(req[s], doc[s].employee, calls)]]
            /\ UNCHANGED <<req, res>>
    /\ UNCHANGED <<employees, migration, fingerprints, key, auditLog, calls>>

\* lines 430-440: the fields POST /attendance/mark sends of the document
MarkView(a) ==
    [NoAttendance EXCEPT
        !.employeeId = a.employeeId, !.employeeName = a.employeeName,
        !.date = a.date, !.status = a.status, !.markedBy = a.markedBy,
        !.createdAt = a.createdAt]

\* lines 427-441: save() has returned and 201 is sent
MarkRespond(s) ==
    /\ pc[s] = "mark_saved"
    /\ Respond(s, [NoResponse EXCEPT
            !.code = 201, !.message = "Attendance marked successfully",
            !.id = doc[s].id, !.attendance = MarkView(doc[s].attendance)])
    /\ UNCHANGED <<employees, attendance, migration, fingerprints, key, auditLog, calls>>

\* POST /attendance/mark bodies: for the stored employee at two times of one
\* day, and the bodies that differ in the employee, the date or the status
BaseMark ==
    [NoRequest EXCEPT !.op = "mark", !.employeeId = "EMP001",
        !.date = [day |-> 1, ms |-> 0], !.status = "PRESENT",
        !.location = [latitude |-> 12, longitude |-> 77], !.username = "admin"]

MarkRequests ==
    {BaseMark}
    \cup {[BaseMark EXCEPT !.date = d] :
            d \in {[day |-> 1, ms |-> 32400000], InvalidDate, NoDay}}
    \cup {[BaseMark EXCEPT !.employeeId = e] : e \in {"EMP404"}}
    \cup {[BaseMark EXCEPT !.status = st] : st \in {"LATE", "HOLIDAY"}}

AttendanceNext ==
    \/ \E s \in Slots, r \in MarkRequests : MarkValidate(s, r)
    \/ \E s \in Slots : MarkCheckExisting(s)
    \/ \E s \in Slots : MarkSave(s)
    \/ \E s \in Slots : MarkRespond(s)

AttendanceSpec == Init /\ [][AttendanceNext]_vars

(***************************************************************************)
(* POST /employees (src/routes/adminRoutes.js)                             *)
(***************************************************************************)
\* lines 36-48: the message of the first failing check, "" when all pass
CreateValidationError(r) ==
    IF r.name = "" \/ r.employeeId = "" \/ ~Truthy(r.fingerprintTemplate)
    THEN "Required fields: name, employeeId, jobRole, department, fingerprintTemplate"
    ELSE IF r.location = NoLocation \/ r.location.latitude = 0 \/ r.location.longitude = 0
    THEN "Base location with latitude and longitude is required"
    ELSE ""

\* lines 22-51: the request arrives, is validated, and Employee.findOne({ employeeId }) is read
CreateValidate(s, r) ==
    /\ Accepts(s)
    /\ calls' = calls + 1
    /\ IF CreateValidationError(r) # ""
       THEN Reply(s, r, ErrorResponse(400, CreateValidationError(r)))
       ELSE /\ pc' = [pc EXCEPT ![s] = "create_checked"]
            /\ req' = [req EXCEPT ![s] = r]
            /\ doc' = [doc EXCEPT ![s] = [NoLocal EXCEPT
                    !.existing = r.employeeId \in EmployeeIds(employees)]]
            /\ UNCHANGED res
    /\ UNCHANGED <<employees, attendance, migration, fingerprints, key, auditLog>>

\* lines 60-73: new Employee({...})
NewEmployee(r) ==
    [employeeId |-> r.employeeId, name |-> r.name,
     fingerprintTemplate |-> r.fingerprintTemplate, createdBy |-> r.username]

\* DuplicateEmployeeId without the unique index on employeeId
DuplicateEmployeeIdNoIndex(coll, employee) == FALSE

\* employeeId: { unique: true }: the unique index rejects an insert whose
\* employeeId is the employeeId of a stored document
DuplicateEmployeeId(coll, employee) ==
    \E i \in DOMAIN coll : coll[i].employeeId = employee.employeeId

\* lines 52-75: 409 when the query found a document, else employee.save()
\* inserts the new one unless the index rejects it
CreateSave(s) ==
    /\ pc[s] = "create_checked"
    /\ IF doc[s].existing
       THEN /\ Respond(s, ErrorResponse(409, "Employee with ID already exists"))
            /\ UNCHANGED employees
       ELSE /\ IF DuplicateEmployeeId(employees, NewEmployee(req[s]))
               THEN /\ UNCHANGED employees
                    /\ doc' = [doc EXCEPT ![s] = [@ EXCEPT
                            !.saveError = "E11000 duplicate key error"]]
               ELSE /\ employees' = Append(employees, NewEmployee(req[s]))
                    /\ doc' = [doc EXCEPT ![s] = [@ EXCEPT
                            !.id = Len(employees) + 1,
                            !.employee = NewEmployee(req[s])]]
            /\ pc' = [pc EXCEPT ![s] = "create_saved"]
            /\ UNCHANGED <<req, res>>
    /\ UNCHANGED <<attendance, migration, fingerprints, key, auditLog, calls>>

\* lines 80-91: the fields POST /employees sends of the document
CreateView(employee) ==
    [NoEmployee EXCEPT
        !.employeeId = employee.employeeId, !.name = employee.name,
        !.createdBy = employee.createdBy]

\* lines 77-101: save() has returned: 201, or the catch block answers its error
CreateRespond(s) ==
    /\ pc[s] = "create_saved"
    /\ IF doc[s].saveError = ""
       THEN Respond(s, [NoResponse EXCEPT
                !.code = 201, !.message = "Employee created successfully",
                !.id = doc[s].id, !.employee = CreateView(doc[s].employee)])
       ELSE Respond(s, ErrorResponse(500, "Server error while creating employee"))
    /\ UNCHANGED <<employees, attendance, migration, fingerprints, key, auditLog, calls>>

\* POST /employees bodies: a new employee, the employeeId that is stored,
\* and a body without the template
BaseCreate ==
    [NoRequest EXCEPT !.op = "create", !.employeeId = "EMP002", !.name = "Ravi",
        !.fingerprintTemplate = Text(2, 2),
        !.location = [latitude |-> 12, longitude |-> 77], !.username = "admin"]

CreateRequests ==
    {BaseCreate}
    \cup {[BaseCreate EXCEPT !.employeeId = e] : e \in {"EMP001"}}
    \cup {[BaseCreate EXCEPT !.name = n] : n \in {"Meera"}}
    \cup {[BaseCreate EXCEPT !.fingerprintTemplate = t] : t \in {NoText}}

EmployeeNext ==
    \/ \E s \in Slots, r \in CreateRequests : CreateValidate(s, r)
    \/ \E s \in Slots : CreateSave(s)
    \/ \E s \in Slots : CreateRespond(s)

EmployeeSpec == Init /\ [][EmployeeNext]_vars

(***************************************************************************)
(* scripts/migrateFingerprintsToEncrypted.js                               *)
(***************************************************************************)
\* lines 36-43: new Fingerprint({...}) for an employee
MigrationFingerprint(employee, now) ==
    [NoFingerprint EXCEPT
        !.employeeId = employee.employeeId,
        !.fingerIndex = Num(1),
        !.fingerName = "RIGHT_INDEX",
        !.format = "ISO_19794_2",
        !.enrolledBy = "migration_script",
        !.enrolledAt = now,
        !.status = "ACTIVE",
        !.verificationCount = 0]

\* HasActive that finds no document
HasActiveNever(coll, employeeId) == FALSE

\* lines 24-27: Fingerprint.findOne({ employeeId, status: 'ACTIVE' }) finds a document
HasActive(coll, employeeId) ==
    \E i \in Ids(coll) : coll[i].employeeId = employeeId /\ coll[i].status = "ACTIVE"

\* lines 13-19: a run starts: Employee.find({}) is read and the counters are set to 0
MigrateStart ==
    /\ migration.pc \in {"idle", "done"}
    /\ migration.runs < MaxRuns
    /\ migration' = [NoMigration EXCEPT
            !.pc = IF Len(employees) = 0 THEN "done" ELSE "find",
            !.employees = employees,
            !.cursor = 1,
            !.runs = migration.runs + 1]
    /\ UNCHANGED <<employees, attendance, fingerprints, key, pc, req, doc, res, auditLog, calls>>

\* the loop goes on with the next employee, or ends after the last one
NextEmployee(m) ==
    [m EXCEPT
        !.cursor = m.cursor + 1,
        !.fp = NoFingerprint,
        !.pc = IF m.cursor = Len(m.employees) THEN "done" ELSE "find"]

\* lines 21-45: the findOne of the employee under the cursor is read; the
\* employee is skipped, or setTemplate throws and the catch counts a failure,
\* or the new document is ready to be saved
MigrateFind(iv) ==
    /\ migration.pc = "find"
    /\ LET employee == migration.employees[migration.cursor]
           templateBuffer == BufferFromBase64(employee.fingerprintTemplate)
       IN migration' =
            IF HasActive(fingerprints, employee.employeeId)
            THEN NextEmployee([migration EXCEPT !.skipped = @ + 1])
            ELSE IF SetTemplateThrows(templateBuffer)
            THEN NextEmployee([migration EXCEPT !.failed = @ + 1])
            ELSE [migration EXCEPT
                    !.pc = "save",
                    !.fp = setTemplate(MigrationFingerprint(employee, calls),
                                       templateBuffer, iv, key)]
    /\ UNCHANGED <<employees, attendance, fingerprints, key, pc, req, doc, res, auditLog, calls>>

\* lines 46-54: fingerprint.save() inserts the document and the post('save')
\* hook logs it, or save() throws and the catch counts a failure
MigrateSave ==
    /\ migration.pc = "save"
    /\ IF InsertError(fingerprints, migration.fp) = ""
       THEN /\ fingerprints' = Append(fingerprints, migration.fp)
            /\ auditLog' = Append(auditLog,
                    AuditEvent("saved", 0, migration.fp.employeeId, "", migration.fp.status))
            /\ migration' = NextEmployee([migration EXCEPT
                    !.migrated = @ + 1, !.created = @ + 1])
       ELSE /\ migration' = NextEmployee([migration EXCEPT !.failed = @ + 1])
            /\ UNCHANGED <<fingerprints, auditLog>>
    /\ UNCHANGED <<employees, attendance, key, pc, req, doc, res, calls>>

\* employees POST /employees stored next to StoredEmployee: with another
\* template, with the template of StoredEmployee, and with a template of one
\* Base64 character, which decodes to no byte
MigrationEmployees ==
    {<<>>, <<StoredEmployee>>}
    \cup {<<StoredEmployee,
            [StoredEmployee EXCEPT !.employeeId = "EMP002", !.fingerprintTemplate = t]>> :
          t \in {Text(2, 2), Text(2, 1), Text(1, 1)}}

\* the fingerprint collections the script may find: StoredCollections, and
\* the document POST /enroll stored for another finger of the employee
MigrationCollections(k) ==
    StoredCollections(k)
    \cup {<<setTemplate(NewFingerprint([BaseEnroll EXCEPT !.templateBase64 = Text(2, 2)], -2),
                        BufferFromBase64(Text(2, 2)), 0, k)>>}

MigrationInit ==
    /\ employees \in MigrationEmployees
    /\ attendance = <<>>
    /\ migration = NoMigration
    /\ key = 1
    /\ fingerprints \in MigrationCollections(key)
    /\ pc = [s \in Slots |-> "idle"]
    /\ req = [s \in Slots |-> NoRequest]
    /\ doc = [s \in Slots |-> NoLocal]
    /\ res = NoResponse
    /\ auditLog = <<>>
    /\ calls = 0

MigrationNext ==
    \/ MigrateStart
    \/ \E iv \in 0..MaxIV : MigrateFind(iv)
    \/ MigrateSave

MigrationSpec == MigrationInit /\ [][MigrationNext]_vars

(***************************************************************************)
(* The other routes of src/routes/adminRoutes.js                           *)
(***************************************************************************)
\* the documents of a collection that are not deleted, newest first
Stored(coll, none) ==
    LET ids == {i \in DOMAIN coll : coll[i] # none}
    IN [n \in 1..Cardinality(ids) |-> coll[NewestFirst(ids)[n]]]

\* .select('-fingerprintTemplate') left out
SelectWholeDocument(d) == d

\* .select('-fingerprintTemplate') of an employee or attendance document
SelectWithoutFingerprint(d) == [d EXCEPT !.fingerprintTemplate = NoText]

\* the documents a route sends as the query gave them
Selected(list) == [n \in DOMAIN list |-> SelectWithoutFingerprint(list[n])]

\* the request is answered in the step in which it arrives
Serve(s, r, response) ==
    /\ Accepts(s)
    /\ calls' = calls + 1
    /\ Reply(s, r, response)

\* lines 109-159: GET /employees
ListEmployees(s, r) ==
    /\ Serve(s, r, [NoResponse EXCEPT
            !.code = 200, !.employees = Selected(Stored(employees, NoEmployee))])
    /\ UNCHANGED <<employees, attendance, migration, fingerprints, key, auditLog>>

\* findById(id): the document with that _id, if it is stored
Found(coll, id, none) == id \in DOMAIN coll /\ coll[id] # none

\* lines 166-209: GET /employees/:id
EmployeeDetail(s, r) ==
    /\ IF ~Found(employees, r.id, NoEmployee)
       THEN Serve(s, r, ErrorResponse(404, "Employee not found"))
       ELSE Serve(s, r, [NoResponse EXCEPT
                !.code = 200, !.id = r.id,
                !.employee = SelectWithoutFingerprint(employees[r.id])])
    /\ UNCHANGED <<employees, attendance, migration, fingerprints, key, auditLog>>

\* lines 259-269: the fields PUT /employees/:id sends of the document
UpdateView(employee) ==
    [NoEmployee EXCEPT !.employeeId = employee.employeeId, !.name = employee.name]

\* lines 216-285: PUT /employees/:id assigns the fields the body gives and saves
UpdateEmployee(s, r) ==
    /\ IF ~Found(employees, r.id, NoEmployee)
       THEN /\ Serve(s, r, ErrorResponse(404, "Employee not found"))
            /\ UNCHANGED employees
       ELSE LET employee == [employees[r.id] EXCEPT
                    !.name = IF r.name # "" THEN r.name ELSE @,
                    !.fingerprintTemplate =
                        IF Truthy(r.fingerprintTemplate) THEN r.fingerprintTemplate ELSE @]
            IN /\ employees' = [employees EXCEPT ![r.id] = employee]
               /\ Serve(s, r, [NoResponse EXCEPT
                    !.code = 200, !.message = "Employee updated successfully",
                    !.id = r.id, !.employee = UpdateView(employee)])
    /\ UNCHANGED <<attendance, migration, fingerprints, key, auditLog>>

\* lines 287-330: DELETE /employees/:id
DeleteEmployee(s, r) ==
    /\ IF ~Found(employees, r.id, NoEmployee)
       THEN /\ Serve(s, r, ErrorResponse(404, "Employee not found"))
            /\ UNCHANGED employees
       ELSE /\ employees' = [employees EXCEPT ![r.id] = NoEmployee]
            /\ Serve(s, r, [NoResponse EXCEPT
                    !.code = 200, !.message = "Employee deleted successfully",
                    !.employee = [NoEmployee EXCEPT
                        !.employeeId = employees[r.id].employeeId,
                        !.name = employees[r.id].name]])
    /\ UNCHANGED <<attendance, migration, fingerprints, key, auditLog>>

\* Attendance.find({ employeeId }): the documents of an employee, newest first
AttendanceOf(coll, employeeId) ==
    SelectSeq(Stored(coll, NoAttendance), LAMBDA a : a.employeeId = employeeId)

\* lines 458-491: GET /attendance/history/:employeeId
AttendanceHistory(s, r) ==
    /\ Serve(s, r, [NoResponse EXCEPT
            !.code = 200, !.records = Selected(AttendanceOf(attendance, r.employeeId))])
    /\ UNCHANGED <<employees, attendance, migration, fingerprints, key, auditLog>>

\* lines 534-542 and 578-584: the fields PUT and DELETE /attendance/:id send
AttendanceView(a) ==
    [NoAttendance EXCEPT
        !.employeeId = a.employeeId, !.employeeName = a.employeeName,
        !.date = a.date, !.status = a.status]

\* lines 498-553: PUT /attendance/:id assigns the status and saves
UpdateAttendance(s, r) ==
    /\ IF r.status = "" \/ r.status \notin validStatuses
       THEN /\ Serve(s, r, ErrorResponse(400, "Invalid status"))
            /\ UNCHANGED attendance
       ELSE IF ~Found(attendance, r.id, NoAttendance)
       THEN /\ Serve(s, r, ErrorResponse(404, "Attendance record not found"))
            /\ UNCHANGED attendance
       ELSE /\ attendance' = [attendance EXCEPT ![r.id] = [@ EXCEPT !.status = r.status]]
            /\ Serve(s, r, [NoResponse EXCEPT
                    !.code = 200, !.message = "Attendance updated successfully",
                    !.id = r.id,
                    !.attendance = AttendanceView([attendance[r.id] EXCEPT
                                                    !.status = r.status])])
    /\ UNCHANGED <<employees, migration, fingerprints, key, auditLog>>

\* lines 560-596: DELETE /attendance/:id
DeleteAttendance(s, r) ==
    /\ IF ~Found(attendance, r.id, NoAttendance)
       THEN /\ Serve(s, r, ErrorResponse(404, "Attendance record not found"))
            /\ UNCHANGED attendance
       ELSE /\ attendance' = [attendance EXCEPT ![r.id] = NoAttendance]
            /\ Serve(s, r, [NoResponse EXCEPT
                    !.code = 200, !.message = "Attendance record deleted successfully",
                    !.id = r.id, !.attendance = AttendanceView(attendance[r.id])])
    /\ UNCHANGED <<employees, migration, fingerprints, key, auditLog>>

\* lines 606-705, 884-957 and 962-1030: GET /dashboard/stats, /monthly-report
\* and /department-wise send numbers counted over the documents
DashboardCounts(s, r) ==
    /\ Serve(s, r, [NoResponse EXCEPT
            !.code = 200,
            !.id = Len(Stored(employees, NoEmployee)) + Len(Stored(attendance, NoAttendance))])
    /\ UNCHANGED <<employees, attendance, migration, fingerprints, key, auditLog>>

\* lines 729-759: the fields GET /dashboard/daily-attendance sends of an
\* employee and of the attendance document of the day
DailyEmployeeView(employee) ==
    [NoEmployee EXCEPT !.employeeId = employee.employeeId, !.name = employee.name]

DailyAttendanceView(a) ==
    [NoAttendance EXCEPT
        !.status = a.status, !.markedBy = a.markedBy, !.createdAt = a.createdAt]

\* lines 711-793: GET /dashboard/daily-attendance?date=
DailyAttendance(s, r) ==
    /\ Serve(s, r, [NoResponse EXCEPT
            !.code = 200,
            !.employees = [n \in DOMAIN Stored(employees, NoEmployee) |->
                DailyEmployeeView(Selected(Stored(employees, NoEmployee))[n])],
            !.records = [n \in DOMAIN SelectSeq(Stored(attendance, NoAttendance),
                                        LAMBDA a : a.date.day = r.date.day) |->
                DailyAttendanceView(SelectSeq(Stored(attendance, NoAttendance),
                                        LAMBDA a : a.date.day = r.date.day)[n])]])
    /\ UNCHANGED <<employees, attendance, migration, fingerprints, key, auditLog>>

\* lines 859-866: the fields GET /dashboard/employee-history sends of a document
HistoryView(a) ==
    [NoAttendance EXCEPT
        !.date = a.date, !.status = a.status, !.markedBy = a.markedBy,
        !.createdAt = a.createdAt]

\* lines 800-877: GET /dashboard/employee-history/:employeeId
EmployeeHistory(s, r) ==
    /\ IF r.employeeId \notin EmployeeIds(employees)
       THEN Serve(s, r, ErrorResponse(404, "Employee not found"))
       ELSE Serve(s, r, [NoResponse EXCEPT
                !.code = 200,
                !.employee = DailyEmployeeView(
                    SelectWithoutFingerprint(FindEmployee(employees, r.employeeId))),
                !.records = [n \in DOMAIN AttendanceOf(attendance, r.employeeId) |->
                    HistoryView(AttendanceOf(attendance, r.employeeId)[n])]])
    /\ UNCHANGED <<employees, attendance, migration, fingerprints, key, auditLog>>

(***************************************************************************)
(* routes/superadminRoutes.js (src/unnamed/part_000)                       *)
(***************************************************************************)
\* lines 101-116: the fields GET /attendance sends of a document
FeedView(a) ==
    [NoAttendance EXCEPT
        !.employeeId = a.employeeId, !.employeeName = a.employeeName,
        !.date = a.date, !.status = a.status,
        !.fingerprintTemplate = a.fingerprintTemplate,
        !.markedBy = a.markedBy, !.createdAt = a.createdAt]

\* lines 30-128: GET /api/superadmin/attendance
AttendanceFeed(s, r) ==
    /\ Serve(s, r, [NoResponse EXCEPT
            !.code = 200,
            !.records = [n \in DOMAIN Stored(attendance, NoAttendance) |->
                FeedView(Stored(attendance, NoAttendance)[n])]])
    /\ UNCHANGED <<employees, attendance, migration, fingerprints, key, auditLog>>

\* lines 136-205: GET /api/superadmin/attendance/:employeeId
EmployeeAttendance(s, r) ==
    /\ IF Len(AttendanceOf(attendance, r.employeeId)) = 0
       THEN Serve(s, r, ErrorResponse(404, "No attendance records found for employee"))
       ELSE Serve(s, r, [NoResponse EXCEPT
                !.code = 200,
                !.records = [n \in DOMAIN AttendanceOf(attendance, r.employeeId) |->
                    [HistoryView(AttendanceOf(attendance, r.employeeId)[n]) EXCEPT
                        !.fingerprintTemplate =
                            AttendanceOf(attendance, r.employeeId)[n].fingerprintTemplate]]])
    /\ UNCHANGED <<employees, attendance, migration, fingerprints, key, auditLog>>

\* lines 214-245: GET /api/superadmin/employees
EmployeesWithFingerprints(s, r) ==
    /\ Serve(s, r, [NoResponse EXCEPT
            !.code = 200, !.employees = Stored(employees, NoEmployee)])
    /\ UNCHANGED <<employees, attendance, migration, fingerprints, key, auditLog>>

\* lines 250-660: GET /api/superadmin/statistics and /dashboard/overview,
\* /analytics and /alerts send numbers counted over the documents
Statistics(s, r) ==
    /\ Serve(s, r, [NoResponse EXCEPT
            !.code = 200,
            !.id = Len(Stored(employees, NoEmployee)) + Len(Stored(attendance, NoAttendance))])
    /\ UNCHANGED <<employees, attendance, migration, fingerprints, key, auditLog>>

(***************************************************************************)
(* src/middleware/auth.js and the routers that use it                      *)
(***************************************************************************)
\* the Authorization header of a request: "" is no token, "valid" verifies
\* with jwt.verify, "expired" makes it throw
Tokens == {"", "expired", "valid"}

\* the role in the payload of a token that verifies
Roles == {"admin", "ADMIN ", "superadmin", "viewer"}

\* String(role || '').trim().toLowerCase()
trimToLowerCase(role) == IF role = "ADMIN " THEN "admin" ELSE role

\* what the middleware answers; NoResponse when it calls next()
\* lines 12-42: authenticateToken
authenticateToken(r) ==
    IF r.token = ""
    THEN ErrorResponse(401, "Access denied. No token provided.")
    ELSE IF r.token # "valid"
    THEN ErrorResponse(403, "Invalid or expired token.")
    ELSE NoResponse

\* requireAdmin that lets every verified user through
requireAdminAnyRole(r) == NoResponse

\* lines 52-67: requireAdmin; req.user is set whenever it is reached
requireAdmin(r) ==
    IF trimToLowerCase(r.role) \notin {"admin", "superadmin"}
    THEN ErrorResponse(403, "Access denied. Admin privileges required.")
    ELSE NoResponse

\* lines 69-86: requireSuperadmin
requireSuperadmin(r) ==
    IF trimToLowerCase(r.role) # "superadmin"
    THEN ErrorResponse(403, "Access denied. Superadmin privileges required.")
    ELSE NoResponse

\* protect, imported by src/routes/fingerprintRoutes.js: all routes require
\* authentication (JWT token)
protect(r) ==
    IF r.token = ""
    THEN ErrorResponse(401, "Not authorized, no token")
    ELSE IF r.token # "valid"
    THEN ErrorResponse(403, "Not authorized, token failed")
    ELSE NoResponse

\* authorize(...roles), imported by src/routes/fingerprintRoutes.js
authorize(roles, r) ==
    IF r.role \notin roles
    THEN ErrorResponse(403, "Not authorized for this role")
    ELSE NoResponse

\* router.use(a); router.use(b): b runs when a called next()
Then(a, b) == IF a # NoResponse THEN a ELSE b

\* src/routes/adminRoutes.js lines 10-11
AdminGate(r) == Then(authenticateToken(r), requireAdmin(r))

\* src/unnamed/part_000 lines 10-11
SuperadminGate(r) == Then(authenticateToken(r), requireSuperadmin(r))

\* src/routes/fingerprintRoutes.js line 21 and the authorize of each route
FingerprintGate(r) ==
    Then(protect(r),
         IF r.op = "listall" THEN authorize({"superadmin"}, r)
         ELSE authorize({"admin", "superadmin"}, r))

\* the routes of the three routers
AdminOps ==
    {"create", "employees", "employee", "update", "delete", "mark", "history",
     "updateAttendance", "deleteAttendance", "stats", "daily", "employeeHistory"}

SuperadminOps ==
    {"feed", "employeeAttendance", "employeesWithFingerprints", "statistics"}

FingerprintOps == {"enroll", "list", "retrieve", "revoke", "listall", "verify"}

Gate(r) ==
    IF r.op \in AdminOps THEN AdminGate(r)
    ELSE IF r.op \in SuperadminOps THEN SuperadminGate(r)
    ELSE FingerprintGate(r)

\* the middleware answers and the handler of the route is not called
Denied(s, r) ==
    /\ Gate(r) # NoResponse
    /\ Serve(s, r, Gate(r))
    /\ UNCHANGED <<employees, attendance, migration, fingerprints, key, auditLog>>

\* the middleware calls next() and the handler of the route runs
Allowed(r, op) == r.op = op /\ Gate(r) = NoResponse

\* what a request carries in its Authorization header: no token, a token that
\* does not verify, or a token that verifies and names a role
Credentials ==
    {<<t, "">> : t \in Tokens \ {"valid"}} \cup {<<"valid", role>> : role \in Roles}

\* the request with the header
With(r, c) == [r EXCEPT !.token = c[1], !.role = c[2]]

\* the requests of the routes, one or two of each
Route(op) == [NoRequest EXCEPT !.op = op, !.username = "admin"]

RouteRequests(op) ==
    CASE op = "create" -> {BaseCreate}
      [] op = "mark" -> {BaseMark}
      [] op = "daily" -> {[Route(op) EXCEPT !.date = BaseMark.date]}
      [] op = "update" ->
            {[Route(op) EXCEPT !.id = 1, !.fingerprintTemplate = Text(2, 2)]}
      [] op \in {"employee", "delete"} ->
            {[Route(op) EXCEPT !.id = i] : i \in 1..(Len(employees) + 1)}
      [] op \in {"history", "employeeHistory", "employeeAttendance"} ->
            {[Route(op) EXCEPT !.employeeId = "EMP001"]}
      [] op = "updateAttendance" ->
            {[Route(op) EXCEPT !.id = 1, !.status = st] : st \in {"LATE", "HOLIDAY"}}
      [] op = "deleteAttendance" ->
            {[Route(op) EXCEPT !.id = i] : i \in 1..(Len(attendance) + 1)}
      [] op = "retrieve" -> {[Route(op) EXCEPT !.id = 1]}
      [] op \in {"enroll", "list", "revoke", "verify"} -> {}
      [] OTHER -> {Route(op)}

\* an attendance document marked on an earlier day
StoredAttendance ==
    NewAttendance([BaseMark EXCEPT !.date = [day |-> 2, ms |-> 0]], StoredEmployee, -1)

RouterInit ==
    /\ employees = <<StoredEmployee>>
    /\ attendance = <<StoredAttendance>>
    /\ migration = NoMigration
    /\ key = 1
    /\ fingerprints = <<StoredFingerprint(key)>>
    /\ pc = [s \in Slots |-> "idle"]
    /\ req = [s \in Slots |-> NoRequest]
    /\ doc = [s \in Slots |-> NoLocal]
    /\ res = NoResponse
    /\ auditLog = <<>>
    /\ calls = 0

RouterNext ==
    \/ \E s \in Slots :
            /\ Accepts(s)
            /\ \E c \in Credentials, op \in AdminOps \cup SuperadminOps \cup FingerprintOps :
                    \E r \in RouteRequests(op) : Denied(s, With(r, c))
    \/ \E s \in Slots :
            /\ Accepts(s)
            /\ \E c \in Credentials, r \in RouteRequests("create") :
                    Allowed(With(r, c), "create") /\ CreateValidate(s, With(r, c))
    \/ \E s \in Slots : CreateSave(s)
    \/ \E s \in Slots : CreateRespond(s)
    \/ \E s \in Slots :
            /\ Accepts(s)
            /\ \E c \in Credentials, r \in RouteRequests("employees") :
                    Allowed(With(r, c), "employees") /\ ListEmployees(s, With(r, c))
    \/ \E s \in Slots :
            /\ Accepts(s)
            /\ \E c \in Credentials, r \in RouteRequests("employee") :
                    Allowed(With(r, c), "employee") /\ EmployeeDetail(s, With(r, c))
    \/ \E s \in Slots :
            /\ Accepts(s)
            /\ \E c \in Credentials, r \in RouteRequests("update") :
                    Allowed(With(r, c), "update") /\ UpdateEmployee(s, With(r, c))
    \/ \E s \in Slots :
            /\ Accepts(s)
            /\ \E c \in Credentials, r \in RouteRequests("delete") :
                    Allowed(With(r, c), "delete") /\ DeleteEmployee(s, With(r, c))
    \/ \E s \in Slots :
            /\ Accepts(s)
            /\ \E c \in Credentials, r \in RouteRequests("mark") :
                    Allowed(With(r, c), "mark") /\ MarkValidate(s, With(r, c))
    \/ \E s \in Slots : MarkCheckExisting(s)
    \/ \E s \in Slots : MarkSave(s)
    \/ \E s \in Slots : MarkRespond(s)
    \/ \E s \in Slots :
            /\ Accepts(s)
            /\ \E c \in Credentials, r \in RouteRequests("history") :
                    Allowed(With(r, c), "history") /\ AttendanceHistory(s, With(r, c))
    \/ \E s \in Slots :
            /\ Accepts(s)
            /\ \E c \in Credentials, r \in RouteRequests("updateAttendance") :
                    Allowed(With(r, c), "updateAttendance") /\ UpdateAttendance(s, With(r, c))
    \/ \E s \in Slots :
            /\ Accepts(s)
            /\ \E c \in Credentials, r \in RouteRequests("deleteAttendance") :
                    Allowed(With(r, c), "deleteAttendance") /\ DeleteAttendance(s, With(r, c))
    \/ \E s \in Slots :
            /\ Accepts(s)
            /\ \E c \in Credentials, r \in RouteRequests("stats") :
                    Allowed(With(r, c), "stats") /\ DashboardCounts(s, With(r, c))
    \/ \E s \in Slots :
            /\ Accepts(s)
            /\ \E c \in Credentials, r \in RouteRequests("daily") :
                    Allowed(With(r, c), "daily") /\ DailyAttendance(s, With(r, c))
    \/ \E s \in Slots :
            /\ Accepts(s)
            /\ \E c \in Credentials, r \in RouteRequests("employeeHistory") :
                    Allowed(With(r, c), "employeeHistory") /\ EmployeeHistory(s, With(r, c))
    \/ \E s \in Slots :
            /\ Accepts(s)
            /\ \E c \in Credentials, r \in RouteRequests("feed") :
                    Allowed(With(r, c), "feed") /\ AttendanceFeed(s, With(r, c))
    \/ \E s \in Slots :
            /\ Accepts(s)
            /\ \E c \in Credentials, r \in RouteRequests("employeeAttendance") :
                    Allowed(With(r, c), "employeeAttendance") /\ EmployeeAttendance(s, With(r, c))
    \/ \E s \in Slots :
            /\ Accepts(s)
            /\ \E c \in Credentials, r \in RouteRequests("employeesWithFingerprints") :
                    Allowed(With(r, c), "employeesWithFingerprints") /\ EmployeesWithFingerprints(s, With(r, c))
    \/ \E s \in Slots :
            /\ Accepts(s)
            /\ \E c \in Credentials, r \in RouteRequests("statistics") :
                    Allowed(With(r, c), "statistics") /\ Statistics(s, With(r, c))
    \/ \E s \in Slots :
            /\ Accepts(s)
            /\ \E c \in Credentials, r \in RouteRequests("retrieve") :
                    Allowed(With(r, c), "retrieve") /\ RetrieveLoad(s, With(r, c))
    \/ \E s \in Slots : RetrieveRespond(s)
    \/ \E s \in Slots :
            /\ Accepts(s)
            /\ \E c \in Credentials, r \in RouteRequests("listall") :
                    Allowed(With(r, c), "listall") /\ ListAllLoad(s, With(r, c))
    \/ \E s \in Slots : ListAllRespond(s)

RouterSpec == RouterInit /\ [][RouterNext]_vars

(***************************************************************************)
(* Properties                                                              *)
(***************************************************************************)
\* the hashes held by ACTIVE documents
ActiveHashes(coll) ==
    {coll[i].templateHash : i \in {j \in Ids(coll) : coll[j].status = "ACTIVE"}}

\* the handler in slot s moves
Steps(s) == pc'[s] # pc[s]

\* the handler in slot s sends its response
Answers(s) == pc[s] # "idle" /\ pc'[s] = "idle"

\* C1: at no time do two distinct ACTIVE documents hold the same templateHash.
C1_ActiveHashUnique ==
    \A i, j \in Ids(fingerprints) :
        /\ i # j
        /\ fingerprints[i].status = "ACTIVE"
        /\ fingerprints[j].status = "ACTIVE"
        => fingerprints[i].templateHash # fingerprints[j].templateHash

\* an enroll that had passed the duplicate check was stopped by the index and
\* answered 409, and the hash it carried is held by an ACTIVE document
C1_Witness ==
    /\ res.code = 409
    /\ res.message = "Duplicate fingerprint template detected"
    /\ res.call.templateHash \in ActiveHashes(fingerprints)

\* C2: an enroll whose template hash is held by an ACTIVE document is rejected
\* as a duplicate and writes nothing: the duplicate query answers true exactly
\* when an ACTIVE document holds the hash, and a call it answered true for is
\* answered 409 with the collection unchanged.
C2_DuplicateRejectedNoWrite ==
    [][\A s \in Slots :
        /\ (pc[s] = "enroll_employee" /\ pc'[s] = "enroll_dupcheck")
            => (doc'[s].isDuplicate
                    <=> doc'[s].fp.templateHash \in ActiveHashes(fingerprints))
        /\ (pc[s] = "enroll_dupcheck" /\ doc[s].isDuplicate /\ Steps(s))
            => /\ Answers(s)
               /\ res'.code = 409
               /\ res'.call.op = "enroll"
               /\ fingerprints' = fingerprints]_vars

\* an enroll was answered 409 by the duplicate check and the hash it carried
\* is held by an ACTIVE document
C2_Witness ==
    /\ res.code = 409
    /\ res.message = "already enrolled (duplicate detected)"
    /\ res.call.templateHash \in ActiveHashes(fingerprints)

\* C3: after the only ACTIVE document holding a hash has been revoked, an
\* enroll of the same template is saved as a new ACTIVE document: a save of a
\* valid document whose hash is held by a REVOKED document and by no ACTIVE
\* one inserts it.
C3_ReenrollAfterRevoke ==
    [][\A s \in Slots :
        /\ pc[s] = "enroll_dupcheck"
        /\ pc'[s] = "enroll_saved"
        /\ SchemaValid(doc[s].fp)
        /\ doc[s].fp.templateHash \notin ActiveHashes(fingerprints)
        /\ \E i \in Ids(fingerprints) :
                /\ fingerprints[i].templateHash = doc[s].fp.templateHash
                /\ fingerprints[i].status = "REVOKED"
        => fingerprints' = Append(fingerprints, doc[s].fp)]_vars

\* C4: of two overlapping enroll calls for the same template that both passed
\* the duplicate check, exactly one is answered 201 and the other 409.  The
\* call in slot t was in flight when the last response was sent, so the two
\* calls overlap; no ACTIVE document of a third call holds the hash.
C4_ConcurrentEnrollOneWins ==
    [][\A t \in Slots :
        /\ res.call.op = "enroll"
        /\ res.message \in {"Fingerprint enrolled successfully",
                            "Duplicate fingerprint template detected"}
        /\ t \in res.call.during
        /\ pc[t] = "enroll_saved"
        /\ Answers(t)
        /\ doc[t].saveError # "ValidationError"
        /\ doc[t].fp.templateHash = res.call.templateHash
        /\ \A i \in Ids(fingerprints) :
                /\ fingerprints[i].templateHash = doc[t].fp.templateHash
                /\ fingerprints[i].status = "ACTIVE"
                => i \in {res.id, doc[t].id}
        => {res.code, res'.code} = {201, 409}]_vars

\* C5: a revoke of a document that is not ACTIVE is answered with a state
\* error (403 or 409) and leaves the collection unchanged.
C5_RevokeOnlyFromActive ==
    [][\A s \in Slots :
        /\ pc[s] = "revoke_loaded"
        /\ doc[s].found
        /\ doc[s].fp.status # "ACTIVE"
        /\ Steps(s)
        => /\ Answers(s)
           /\ res'.code \in {403, 409}
           /\ fingerprints' = fingerprints]_vars

\* C6: of two overlapping revoke calls for the same document only one reports
\* success: when one has been answered 200, the call that was in flight in
\* slot t at that moment is answered with a state error (403 or 409).
C6_ConcurrentRevokeOneWins ==
    [][\A t \in Slots :
        /\ res.call.op = "revoke"
        /\ res.code = 200
        /\ t \in res.call.during
        /\ pc[t] = "revoke_saved"
        /\ req[t].id = res.id
        /\ Answers(t)
        => res'.code \in {403, 409}]_vars

\* C7: the status of a document is monotone: a document is created ACTIVE, no
\* document disappears, and a document that is not ACTIVE is not ACTIVE after
\* any step.
C7_StatusMonotone ==
    [][/\ Len(fingerprints') >= Len(fingerprints)
       /\ \A i \in Ids(fingerprints') :
            IF i \in Ids(fingerprints)
            THEN fingerprints[i].status # "ACTIVE" => fingerprints'[i].status # "ACTIVE"
            ELSE fingerprints'[i].status = "ACTIVE"]_vars

\* a verification was saved to a document after its revocation
C7_Witness ==
    \E i \in Ids(fingerprints) :
        /\ fingerprints[i].status = "REVOKED"
        /\ fingerprints[i].verificationCount > 0
        /\ fingerprints[i].lastVerifiedAt > fingerprints[i].revokedAt

\* C8: GET /template/:id reads the stored document, and a call that read a
\* document whose status is not ACTIVE is answered 403 without a template and
\* without an audit line; a call that found no document is answered 404, and
\* 403 is sent for a stored document only.
C8_RetrieveNonActiveRefused ==
    [][\A s \in Slots :
        /\ (Free(s) /\ pc'[s] = "retrieve_loaded")
            => /\ doc'[s].found <=> req'[s].id \in Ids(fingerprints)
               /\ doc'[s].found => doc'[s].fp = fingerprints[req'[s].id]
        /\ (pc[s] = "retrieve_loaded" /\ Steps(s))
            => /\ Answers(s)
               /\ ~doc[s].found => res'.code = 404
               /\ (doc[s].found /\ doc[s].fp.status # "ACTIVE")
                    => /\ res'.code = 403
                       /\ res'.template = NoText
                       /\ auditLog' = auditLog
               /\ res'.code = 403 => doc[s].found]_vars

\* a call for a stored REVOKED document was answered 403 without a template
C8_Witness ==
    /\ res.call.op = "retrieve"
    /\ res.code = 403
    /\ res.template = NoText
    /\ res.call.id \in Ids(fingerprints)
    /\ fingerprints[res.call.id].status = "REVOKED"

\* C9: no response of GET /template/:id carries a template once the
\* revocation of the document is stored: when the template is sent the stored
\* document is ACTIVE.
C9_NoPlaintextAfterRevocation ==
    [][\A s \in Slots :
        /\ pc[s] = "retrieve_loaded"
        /\ Answers(s)
        /\ res'.template # NoText
        => fingerprints[doc[s].id].status = "ACTIVE"]_vars

\* C10: the step that sends a template has first written the audit line that
\* names the document, its employee and the user of the request.
C10_AuditBeforePlaintext ==
    [][\A s \in Slots :
        (Answers(s) /\ res'.template # NoText)
        => auditLog' = Append(auditLog,
                AuditEvent("accessed", res'.id,
                           fingerprints[res'.id].employeeId, req[s].username, ""))]_vars

\* a template was sent to "root" and the line naming "root" is in the log
C10_Witness ==
    /\ res.code = 200
    /\ res.template # NoText
    /\ \E k \in DOMAIN auditLog :
            /\ auditLog[k].action = "accessed"
            /\ auditLog[k].recordId = res.id
            /\ auditLog[k].actor = "root"

\* the buffer a templateHash was computed from (the hash is collision free)
PlaintextOf(fp) == [len |-> fp.templateHash[2], body |-> fp.templateHash[3]]

\* the handler in slot s holds a document that setTemplate has filled
Built(s) == pc[s] \in {"enroll_dupcheck", "enroll_saved"}

\* C11: when the envelope of the stored ACTIVE document differs from the one
\* encryption produced, in IV, tag or ciphertext, GET /template/:id answers
\* with the decryption failure and sends no template and writes no audit line.
C11_TamperDetected ==
    [][\A s \in Slots :
        /\ pc[s] = "retrieve_loaded"
        /\ Answers(s)
        /\ doc[s].found
        /\ doc[s].fp.status = "ACTIVE"
        /\ doc[s].fp.encryptedTemplate # StoredFingerprint(key).encryptedTemplate
        => /\ res'.code = 500
           /\ res'.message = "Failed to decrypt template"
           /\ res'.template = NoText
           /\ auditLog' = auditLog]_vars

\* the document whose IV was changed was asked for and the answer was the
\* decryption failure
C11_Witness ==
    /\ res.code = 500
    /\ res.message = "Failed to decrypt template"
    /\ res.call.id \in Ids(fingerprints)
    /\ fingerprints[res.call.id].status = "ACTIVE"
    /\ fingerprints[res.call.id].encryptedTemplate.iv
            # StoredFingerprint(key).encryptedTemplate.iv
    /\ fingerprints[res.call.id].encryptedTemplate.authTag
            = StoredFingerprint(key).encryptedTemplate.authTag

\* C12: decryption undoes encryption under the key of the process: the
\* envelope setTemplate built decrypts, without failure, to the buffer the
\* request carried, and GET /template/:id on an enrolled ACTIVE document
\* answers 200 with the Base64 text of the enrolled buffer.
C12_RoundTrip ==
    [][\A s \in Slots :
        /\ (pc[s] = "enroll_employee" /\ pc'[s] = "enroll_dupcheck")
            => /\ ~DecryptFails(doc'[s].fp.encryptedTemplate, key)
               /\ decryptTemplate(doc'[s].fp.encryptedTemplate, key)
                    = BufferFromBase64(req[s].templateBase64)
        /\ (/\ pc[s] = "retrieve_loaded" /\ Answers(s)
            /\ doc[s].found /\ doc[s].fp.status = "ACTIVE")
            => /\ res'.code = 200
               /\ res'.template = BufferToBase64(PlaintextOf(doc[s].fp))]_vars

\* the template of a document encrypted with an IV other than 0 was sent, and
\* it is the Base64 text of the largest buffer a request can carry
C12_Witness ==
    /\ res.code = 200
    /\ res.call.op = "retrieve"
    /\ res.id \in Ids(fingerprints)
    /\ fingerprints[res.id].encryptedTemplate.iv # 0
    /\ res.template = BufferToBase64(BufferFromBase64(Text(BODY_LIMIT, 1)))

C14_SizeBoundaries ==
    LET r == res.call.request
        templateBuffer == BufferFromBase64(r.templateBase64)
    IN (/\ res.call.op = "enroll"
        /\ [r EXCEPT !.templateBase64 = BaseEnroll.templateBase64] = BaseEnroll)
       => /\ templateBuffer.len = 0 => res.code = 400
          /\ templateBuffer.len = MAX_TEMPLATE_BYTES + 1 => res.code \in {400, 413}
          /\ templateBuffer.len = MAX_TEMPLATE_BYTES
                => /\ res.code = 201
                   /\ \E i \in Ids(fingerprints) :
                        PlaintextOf(fingerprints[i]) = templateBuffer

\* C15: the envelope of every stored document is between 33 and 10485760
\* bytes long, and is 32 bytes longer than the template it was built from.
C15_EnvelopeLength ==
    \A i \in Ids(fingerprints) :
        LET encrypted == fingerprints[i].encryptedTemplate
        IN /\ encrypted.len >= IV_LEN + TAG_LEN + 1
           /\ encrypted.len <= MAX_TEMPLATE_BYTES
           /\ encrypted.len = IV_LEN + TAG_LEN + PlaintextOf(fingerprints[i]).len

\* the largest template a request can carry was enrolled and stored
C15_Witness ==
    \E i \in Ids(fingerprints) :
        /\ PlaintextOf(fingerprints[i]) = BufferFromBase64(Text(BODY_LIMIT, 1))
        /\ fingerprints[i].encryptedTemplate.len
                = IV_LEN + TAG_LEN + BufferFromBase64(Text(BODY_LIMIT, 1)).len

\* the revocation fields of a document
RevocationFields(fp) == <<fp.revokedAt, fp.revokedBy, fp.revokeReason>>

\* C16: a revoke that is answered 200 has stored status REVOKED with the user
\* of the request, the time of the call and the reason, or the sentinel when
\* no reason was given; every REVOKED document has a revokedAt, a revokedBy
\* and a revokeReason.
C16_RevokeStamps ==
    [][/\ \A s \in Slots :
            (pc[s] = "revoke_loaded" /\ pc'[s] = "revoke_saved" /\ doc'[s].saveError = "")
            => LET stored == fingerprints'[doc[s].id]
               IN /\ stored.status = "REVOKED"
                  /\ stored.revokedBy = req[s].username
                  /\ stored.revokedAt = calls
                  /\ stored.revokeReason = IF req[s].reason # "" THEN req[s].reason
                                           ELSE "No reason provided"
       /\ \A s \in Slots :
            (pc[s] = "revoke_saved" /\ Answers(s) /\ res'.code = 200)
            => /\ doc[s].saveError = ""
               /\ res'.fingerprint.status = "REVOKED"
       /\ \A i \in Ids(fingerprints') :
            fingerprints'[i].status = "REVOKED"
            => /\ fingerprints'[i].revokedAt # NoDate
               /\ fingerprints'[i].revokedBy # ""
               /\ fingerprints'[i].revokeReason # ""]_vars

\* a revoke without a reason was answered 200 and the stored document carries
\* the sentinel and the time of that call
C16_Witness ==
    /\ res.call.op = "revoke"
    /\ res.code = 200
    /\ res.call.request.reason = ""
    /\ fingerprints[res.id].status = "REVOKED"
    /\ fingerprints[res.id].revokeReason = "No reason provided"
    /\ fingerprints[res.id].revokedAt > NoDate

\* C17: the revocation fields are unset on every ACTIVE document, and no step
\* changes the revocation fields of a document that is REVOKED.
C17_RevocationFieldsFrame ==
    [][/\ \A i \in Ids(fingerprints') :
            fingerprints'[i].status = "ACTIVE"
            => RevocationFields(fingerprints'[i]) = <<NoDate, "", "">>
       /\ \A i \in Ids(fingerprints) :
            fingerprints[i].status = "REVOKED"
            => RevocationFields(fingerprints'[i]) = RevocationFields(fingerprints[i])]_vars

ActiveOf(coll, employeeId) ==
    {i \in Ids(coll) : coll[i].employeeId = employeeId /\ coll[i].status = "ACTIVE"}

\* C19: every employee has at most 10 ACTIVE documents, and no two ACTIVE
\* documents of one employee carry the same fingerIndex.
C19_OnePerFingerPosition ==
    \A e \in EmployeeIds(employees) :
        /\ Cardinality(ActiveOf(fingerprints, e)) <= 10
        /\ \A i, j \in ActiveOf(fingerprints, e) :
            (i # j /\ fingerprints[i].fingerIndex # Undef)
            => fingerprints[i].fingerIndex # fingerprints[j].fingerIndex

\* C20: an enroll whose template, fingerIndex, quality or format misses its
\* constraint is answered 400 and one that names no stored employee 404; an
\* enroll that is not answered 201 stores nothing; and an enroll that differs
\* from a well-formed one only in a missing or null fingerIndex is enrolled
\* or refused as a duplicate.
C20_EnrollInputErrors ==
    [][/\ fingerprints' # fingerprints
            => \E s \in Slots : /\ pc[s] = "enroll_dupcheck"
                                /\ pc'[s] = "enroll_saved"
                                /\ doc'[s].saveError = ""
       /\ \A s \in Slots :
            (pc[s] = "enroll_saved" /\ Answers(s))
            => (res'.code = 201 <=> doc[s].saveError = "")
       /\ LET r == res'.call.request
              templateBuffer == BufferFromBase64(r.templateBase64)
          IN res'.call.op = "enroll"
             => /\ (\/ templateBuffer.len = 0
                    \/ r.fingerIndex \notin {Undef, Null} \cup {Num(n) : n \in 0..9}
                    \/ r.quality \notin {Undef, Null} \cup {Num(n) : n \in 0..100}
                    \/ r.format \notin validFormats \cup {""})
                   => res'.code = 400
                /\ (r.employeeId \notin EmployeeIds(employees) /\ res'.code # 400) => res'.code = 404
                /\ (\E i \in {Undef, Null} : r = [BaseEnroll EXCEPT !.fingerIndex = i])
                   => res'.code \in {201, 409}]_vars

\* C21: no response of enroll, the two lists, revoke or retrieve carries the
\* envelope of a document, in its document view or in its list, and neither
\* does the toJSON view of a stored document; a template is sent only in the
\* 200 answer of GET /template/:id for a document that was read ACTIVE.
C21_NoEnvelopeInResponses ==
    [][/\ res'.fingerprint.encryptedTemplate = NoEnvelope
       /\ \A n \in DOMAIN res'.fingerprints :
            res'.fingerprints[n].fingerprint.encryptedTemplate = NoEnvelope
       /\ \A i \in Ids(fingerprints') :
            toJSON(fingerprints'[i]).encryptedTemplate = NoEnvelope
       /\ \A s \in Slots :
            (Answers(s) /\ res'.template # NoText)
            => /\ pc[s] = "retrieve_loaded"
               /\ res'.code = 200
               /\ doc[s].fp.status = "ACTIVE"]_vars

\* GET /list/all answered with the views of two stored documents, which
\* both carry an envelope in the collection
C21_Witness ==
    /\ res.call.op = "listall"
    /\ res.code = 200
    /\ Len(res.fingerprints) = 2
    /\ \A n \in DOMAIN res.fingerprints :
        /\ res.fingerprints[n].id \in Ids(fingerprints)
        /\ fingerprints[res.fingerprints[n].id].encryptedTemplate # NoEnvelope
        /\ res.fingerprints[n].fingerprint.enrolledBy
                = fingerprints[res.fingerprints[n].id].enrolledBy

\* the log holds the line of a revocation of document id by actor
RevokedLogged(log, id, employeeId, actor) ==
    \E k \in DOMAIN log : log[k] = AuditEvent("revoked", id, employeeId, actor, "")

C23_TemplateExistsActiveOnly ==
    [][/\ \A s \in Slots :
            (pc[s] = "enroll_employee" /\ pc'[s] = "enroll_dupcheck")
            => /\ doc'[s].isDuplicate
                    <=> \E i \in Ids(fingerprints) :
                            /\ fingerprints[i].templateHash = doc'[s].fp.templateHash
                            /\ fingerprints[i].status = "ACTIVE"
               /\ UNCHANGED <<employees, fingerprints, key, auditLog>>
       /\ \A i \in Ids(fingerprints) :
            (\A j \in Ids(fingerprints) :
                fingerprints[j].templateHash = fingerprints[i].templateHash
                => fingerprints[j].status \in {"REVOKED", "EXPIRED"})
            => ~templateExists(fingerprints, fingerprints[i].templateHash)]_vars

\* the query of an enroll answered false for a hash that an EXPIRED document holds
C23_Witness ==
    \E s \in Slots :
        /\ pc[s] = "enroll_dupcheck"
        /\ ~doc[s].isDuplicate
        /\ \E i \in Ids(fingerprints) :
            /\ fingerprints[i].templateHash = doc[s].fp.templateHash
            /\ fingerprints[i].status = "EXPIRED"

\* C24: a GET /template/:id answered with the decryption failure leaves the
\* collection and the key as they were, so the document is still stored and
\* ACTIVE, and the slot is free for the next request; and a request for the
\* document whose last answer was that failure is answered with it again.
C24_IntegrityFailureFrame ==
    [][\A s \in Slots :
        /\ (/\ pc[s] = "retrieve_loaded" /\ Answers(s)
            /\ res'.message = "Failed to decrypt template")
            => /\ res'.code = 500
               /\ UNCHANGED <<fingerprints, key, employees>>
               /\ doc[s].id \in Ids(fingerprints')
               /\ fingerprints'[doc[s].id].status = "ACTIVE"
               /\ Free(s)'
        /\ (/\ pc[s] = "retrieve_loaded" /\ Answers(s)
            /\ doc[s].found
            /\ res.message = "Failed to decrypt template"
            /\ res.call.id = doc[s].id)
            => /\ res'.code = 500
               /\ res'.message = "Failed to decrypt template"
               /\ res'.template = NoText]_vars

\* the decryption failure was answered with no other handler in flight, and
\* the request that came after it has read the same document, still ACTIVE
C24_Witness ==
    /\ res.code = 500
    /\ res.message = "Failed to decrypt template"
    /\ res.call.during = {}
    /\ \E s \in Slots :
        /\ pc[s] = "retrieve_loaded"
        /\ doc[s].found
        /\ doc[s].id = res.call.id
        /\ doc[s].fp.status = "ACTIVE"
        /\ fingerprints[doc[s].id] = doc[s].fp

\* the key of the process that sealed the envelope of a document
SealedUnder(fp) == fp.encryptedTemplate.authTag[1]

\* C25: with the key drawn at the start of the process, GET /template/:id of
\* an ACTIVE document answers 200 with the enrolled template when the running
\* process sealed it, and the decryption failure with no template when an
\* earlier process did; and a start never brings back the key of an earlier
\* process, so that failure stays.
C25_KeyLivesWithProcess ==
    [][/\ \A s \in Slots :
            (/\ pc[s] = "retrieve_loaded" /\ Answers(s) /\ key' = key
             /\ doc[s].found /\ doc[s].fp.status = "ACTIVE")
            => IF SealedUnder(doc[s].fp) = key
               THEN /\ res'.code = 200
                    /\ res'.template = BufferToBase64(PlaintextOf(doc[s].fp))
               ELSE /\ res'.code = 500
                    /\ res'.message = "Failed to decrypt template"
                    /\ res'.template = NoText
       /\ key' # key => \A k \in 1..key : key' # k
       /\ \A i \in Ids(fingerprints') : SealedUnder(fingerprints'[i]) \in 1..key']_vars

\* the document the first process enrolled was asked for after the restart
\* and the answer was the decryption failure
C25_Witness ==
    /\ key = 2
    /\ res.code = 500
    /\ res.message = "Failed to decrypt template"
    /\ res.call.id \in Ids(fingerprints)
    /\ fingerprints[res.call.id].status = "ACTIVE"
    /\ SealedUnder(fingerprints[res.call.id]) = 1

\* the attendance documents of an employee on a calendar day
MarkedOn(coll, employeeId, day) ==
    {i \in DOMAIN coll : coll[i].employeeId = employeeId /\ coll[i].date.day = day}

\* C26: a mark for an employee who has a document of that calendar day is
\* answered 409 and inserts nothing, and no employee ever has two documents
\* of one calendar day.
C26_OneMarkPerDay ==
    [][/\ \A s \in Slots :
            (/\ pc[s] = "mark_checked" /\ Steps(s)
             /\ MarkedOn(attendance, req[s].employeeId, req[s].date.day) # {})
            => /\ Answers(s)
               /\ res'.code = 409
               /\ attendance' = attendance
       /\ \A i, j \in DOMAIN attendance' :
            (/\ attendance'[i].employeeId = attendance'[j].employeeId
             /\ attendance'[i].date.day = attendance'[j].date.day)
            => i = j]_vars

\* C29: a create that arrives for an employeeId that is stored is answered
\* 409 and writes nothing; every insert is of an employeeId that was not
\* stored; and at no time do two employee documents share an employeeId,
\* whatever the interleaving of the creates.
C29_EmployeeIdUnique ==
    [][/\ \A s \in Slots :
            (/\ pc[s] = "idle" /\ pc'[s] = "create_checked"
             /\ req'[s].employeeId \in EmployeeIds(employees))
            => doc'[s].existing
       /\ \A s \in Slots :
            (pc[s] = "create_checked" /\ doc[s].existing /\ Steps(s))
            => /\ Answers(s)
               /\ res'.code = 409
               /\ employees' = employees
       /\ employees' # employees
            => /\ Len(employees') = Len(employees) + 1
               /\ employees'[Len(employees')].employeeId \notin EmployeeIds(employees)
       /\ \A i, j \in DOMAIN employees' :
            employees'[i].employeeId = employees'[j].employeeId => i = j]_vars

\* two creates of one new employeeId were in flight together: one document
\* was inserted and the later save was stopped by the index
C29_Witness ==
    /\ res.call.op = "create"
    /\ res.code = 500
    /\ res.call.during # {}
    /\ Cardinality({i \in DOMAIN employees :
            employees[i].employeeId = res.call.request.employeeId}) = 1

\* the employees the run has dealt with
Counted(m) == m.migrated + m.skipped + m.failed

\* C30: the script inserts a document only for an employee that has no ACTIVE
\* one; the cursor moves over the employees one by one and each employee it
\* leaves is counted once, so that the run ends with migrated + skipped +
\* failed equal to the number of employees; and a run after the first one
\* inserts nothing.
C30_MigrationCounts ==
    [][/\ fingerprints' # fingerprints
            => /\ Len(fingerprints') = Len(fingerprints) + 1
               /\ \A i \in Ids(fingerprints) :
                    fingerprints[i].employeeId
                        = fingerprints'[Len(fingerprints')].employeeId
                    => fingerprints[i].status # "ACTIVE"
               /\ migration'.runs = 1
       /\ migration'.pc \in {"find", "save"}
            => /\ migration'.cursor \in 1..Len(employees)
               /\ Counted(migration') = migration'.cursor - 1
       /\ (migration.pc \in {"find", "save"} /\ migration'.pc \in {"find", "save", "done"})
            => /\ migration'.cursor \in {migration.cursor, migration.cursor + 1}
               /\ migration'.cursor = migration.cursor <=> migration'.pc = "save"
       /\ migration'.pc = "done"
            => /\ Counted(migration') = Len(employees)
               /\ migration'.cursor = Len(employees) + 1
               /\ migration'.migrated = migration'.created]_vars

\* the second run has ended: it skipped the employee the first run migrated
\* and failed again for the employee whose template is stored already
C30_Witness ==
    /\ migration.pc = "done"
    /\ migration.runs = 2
    /\ Len(employees) = 2
    /\ migration.skipped = 1
    /\ migration.failed = 1
    /\ migration.migrated = 0
    /\ \E i \in Ids(fingerprints) : fingerprints[i].enrolledBy = "migration_script"

\* the request that arrives in a step: the one a slot takes up, or the one
\* answered in the same step
Arrival ==
    IF \E s \in Slots : pc[s] = "idle" /\ pc'[s] # "idle"
    THEN req'[CHOOSE s \in Slots : pc[s] = "idle" /\ pc'[s] # "idle"]
    ELSE res'.call.request

\* the token is valid and, on admin and superadmin routes, the role (read
\* trimmed and in lower case) is one the router lets in
Permits(r) ==
    /\ r.token = "valid"
    /\ r.op \in AdminOps => trimToLowerCase(r.role) \in {"admin", "superadmin"}
    /\ r.op \in SuperadminOps => trimToLowerCase(r.role) = "superadmin"

CarriesFingerprint(response) ==
    \/ response.employee.fingerprintTemplate # NoText
    \/ response.attendance.fingerprintTemplate # NoText
    \/ \E n \in DOMAIN response.employees :
            response.employees[n].fingerprintTemplate # NoText
    \/ \E n \in DOMAIN response.records :
            response.records[n].fingerprintTemplate # NoText

\* C28: no response of an /api/admin route carries the fingerprintTemplate of
\* an employee or of an attendance record, and a response that carries one
\* answers a superadmin route, to a request whose token is valid and whose
\* role is superadmin.
C28_FingerprintsToSuperadminOnly ==
    /\ res.call.op \in AdminOps => ~CarriesFingerprint(res)
    /\ CarriesFingerprint(res) =>
            /\ res.call.op \in SuperadminOps
            /\ res.call.request.token = "valid"
            /\ trimToLowerCase(res.call.request.role) = "superadmin"

\* an admin was sent the list of the employees, all of which have a template
\* stored
C28_Witness ==
    /\ res.call.op = "employees"
    /\ res.code = 200
    /\ res.call.request.role = "admin"
    /\ res.employees # <<>>
    /\ \A n \in DOMAIN res.employees :
            FindEmployee(employees, res.employees[n].employeeId).fingerprintTemplate # NoText

=============================================================================
